---- MODULE Spec2Model ----
(***************************************************************************)
(* BOM import Map/Reduce script v3 (item_bom_create_mr.js): hierarchy      *)
(* classification, the three-phase reconciliation pipeline and the record  *)
(* store it writes to.                                                     *)
(*                                                                         *)
(* Strings that the code inspects character by character (hierarchy keys)  *)
(* are sequences of one-character strings; external ids are strings built  *)
(* by concatenation, as the code builds them.                              *)
(***************************************************************************)
EXTENDS Integers, Sequences, FiniteSets, TLC

VARIABLES
    \* ---- classifier development (getInputData lines 189-216 in isolation)
    cRows,          \* the mapped rows handed to the classifier
    cOut,           \* the classified rows, <<>> until classified
    cDone,          \* TRUE once the classifier has run
    \* ---- run input (config file and CSV file, fixed for a behaviour)
    rows,           \* the data rows of the CSV (hierarchy, itemid and quantity cells)
    setupMRP,       \* config.defaults.setupMRP
    config,         \* the script parameter, config.prospectName and the CSV's shape
    \* ---- record store
    items,          \* item records in creation order; internal id = position
    boms,           \* bom records, internal id = position
    revs,           \* bomrevision records, internal id = position
    catExists,      \* the planningitemcategory record named after the prospect
    cache,          \* cache entry BOM_IMPORT_CACHE / ALL_ROWS
    \* ---- executor and handlers
    phase,          \* "idle", "map", "reduce", "aborted", "summarize", "done",
                    \* "edited"
    input,          \* the rows getInputData returned
    mapIdx,         \* rows the map stage has consumed
    groups,         \* rows written by map under each reduce key
    wk,             \* per reduce key: position and counters of reduce()
    sRows,          \* allRows of summarize()
    sIdx,           \* assemblies summarize() has handled
    sum,            \* counters of summarize() and whether the summary was logged
    \* ---- fault injection and observation
    faults,         \* failures of store operations injected so far
    dirty,          \* a store or file operation failed (threw) in the current run
    wrote,          \* reduce() wrote an item or item location in the current run
    prev,           \* the store when the previous run ended, and that run's dirty
    lastBom,        \* what the last createOrGetBOM call saw and returned
    lastLink,       \* what the last ensureBOMLinkedToAssembly call saw and returned
    lastFailed,     \* the operations that failed by injection in the last step that
                    \* performs store or file operations
    parse,          \* a line of the CSV, its cells, and whether it gave a data row
    ident,          \* two (itemid, role) pairs and the external ids computed for them
    runs            \* two executions of the script sharing the cache: each one's
                    \* CSV rows, position and the rows its summarize() works on

cvars == <<cRows, cOut, cDone>>
rvars == <<runs, ident, parse>>

input_vars == <<rows, setupMRP, config>>
store_vars == <<items, boms, revs, catExists, cache>>
exec_vars  == <<phase, input, mapIdx, groups, wk, sRows, sIdx, sum>>
obs_vars   == <<faults, dirty, wrote, prev, lastBom, lastLink, lastFailed>>
pvars == <<input_vars, store_vars, exec_vars, obs_vars>>
vars == <<cvars, pvars, rvars>>

\* --------------------------------------------------------------------------
\* Bounds of the classifier development
\* --------------------------------------------------------------------------
MaxKeyLen == 3
MaxClassifyRows == 2

KeyAlphabet == {"1", "."}

\* null of JavaScript for a parentHierarchy: no key built from characters
Null == <<"null">>

\* undefined mrpRotationIndex (assembly rows never get one)
Undefined == -1
\* the numbers Infinity and NaN, which parseFloat returns for the text
\* "Infinity" and for a text that does not start with a number; Infinity is
\* above and NaN is apart from every number of the model
Infinity == 1000000
NaN == -1000000

\* --------------------------------------------------------------------------
\* String helpers, as the JavaScript built-ins compute them
\* --------------------------------------------------------------------------
\* the characters String.prototype.trim removes
Whitespace == {" ", "\t", "\r"}

\* String.prototype.trim
Trim(text) ==
    LET solid == { i \in 1..Len(text) : text[i] \notin Whitespace }
    IN  IF solid = {} THEN <<>>
        ELSE SubSeq(text, CHOOSE i \in solid : \A j \in solid : i <= j,
                          CHOOSE i \in solid : \A j \in solid : i >= j)

\* String.prototype.startsWith
StartsWith(h, p) ==
    /\ Len(h) >= Len(p)
    /\ SubSeq(h, 1, Len(p)) = p

\* position of the last "." of s, 0 when s has none
RECURSIVE LastDot(_, _)
LastDot(s, i) ==
    IF i = 0 THEN 0
    ELSE IF s[i] = "." THEN i
    ELSE LastDot(s, i - 1)

\* s.split('.'): the segments of s between dots (segments may be empty)
RECURSIVE Split(_)
Split(s) ==
    LET d == LastDot(s, Len(s))
    IN  IF d = 0 THEN <<s>>
        ELSE Append(Split(SubSeq(s, 1, d - 1)), SubSeq(s, d + 1, Len(s)))

\* parts.join('.')
RECURSIVE Join(_)
Join(parts) ==
    IF Len(parts) = 0 THEN <<>>
    ELSE IF Len(parts) = 1 THEN parts[1]
    ELSE Join(SubSeq(parts, 1, Len(parts) - 1)) \o <<".">> \o parts[Len(parts)]

\* parts.pop(): parts without its last element
Pop(parts) == SubSeq(parts, 1, Len(parts) - 1)

\* --------------------------------------------------------------------------
\* Hierarchy classifier (getInputData)
\* --------------------------------------------------------------------------
\* new Set(mappedRows.map(r => r.hierarchy))
HierarchySet(mapped) == { mapped[i].hierarchy : i \in 1..Len(mapped) }

\* mutant: a bare prefix test, without the "." separator
IsAssemblyBarePrefix(key, hierarchySet) ==
    \E h \in hierarchySet : h # key /\ StartsWith(h, key)

\* Array.from(hierarchySet).some(h => h !== row.hierarchy &&
\*                                    h.startsWith(row.hierarchy + '.'))
IsAssembly(key, hierarchySet) ==
    \E h \in hierarchySet : h # key /\ StartsWith(h, key \o <<".">>)

\* a variant of ParentHierarchy that keeps the first segment only
ParentHierarchyFirstSegment(key) ==
    LET parts == Split(key)
    IN  IF Len(parts) > 1 THEN parts[1] ELSE Null

\* parts = hierarchy.split('.'); parts.length > 1 ? (pop, join('.')) : null
ParentHierarchy(key) ==
    LET parts == Split(key)
    IN  IF Len(parts) > 1 THEN Join(Pop(parts)) ELSE Null

\* number of non-assembly rows before row i: the value of inventoryIndex
\* when the forEach reaches row i
InventoryIndexAt(mapped, i) ==
    Cardinality({ j \in 1..(i - 1) :
                    ~IsAssembly(mapped[j].hierarchy, HierarchySet(mapped)) })

\* value.trim() of an itemid cell; the cells tried are an id, an id after a
\* blank, a blank and the empty cell
TrimId(value) ==
    IF value \in {"", " "} THEN "" ELSE IF value = " A" THEN "A" ELSE value

\* parseFloat of a quantity cell; the cells tried are listed
ParseFloat(value) ==
    CASE value = "2" -> 2
      [] value = "0" -> 0
      [] value = "-2" -> -2
      [] value = "Infinity" -> Infinity
      [] OTHER -> NaN

\* mapped.bomFields.quantity: not set (0) for a blank cell, parseFloat(value) || 1
\* for any other
MappedQuantity(value) ==
    IF value = "" THEN 0
    ELSE IF ParseFloat(value) \in {0, NaN} THEN 1 ELSE ParseFloat(value)

\* a variant of MappedRows whose filter looks at the hierarchy only
MappedRowsWithAnyItemid(csvRows) ==
    SelectSeq([ i \in 1..Len(csvRows) |->
                  [ hierarchy |-> Trim(csvRows[i].hierarchy),
                    itemid    |-> TrimId(csvRows[i].itemid),
                    quantity  |-> MappedQuantity(csvRows[i].quantity) ] ],
              LAMBDA row : row.hierarchy # <<>>)

\* allRows.map(...).filter(row => row.hierarchy && row.itemFields.itemid): a
\* blank cell sets no field, any other cell sets its trimmed text
MappedRows(csvRows) ==
    SelectSeq([ i \in 1..Len(csvRows) |->
                  [ hierarchy |-> Trim(csvRows[i].hierarchy),
                    itemid    |-> TrimId(csvRows[i].itemid),
                    quantity  |-> MappedQuantity(csvRows[i].quantity) ] ],
              LAMBDA row : row.hierarchy # <<>> /\ row.itemid # "")

\* JSON.parse(JSON.stringify(mappedRows)): JSON has no Infinity, stringify
\* writes it as null, which reads as "no quantity" (0) in quantity || 1; a key
\* whose value is undefined is left out and reads as undefined again
JsonRoundTrip(mappedRows) ==
    [ i \in 1..Len(mappedRows) |->
        [ mappedRows[i] EXCEPT !.quantity = IF @ = Infinity THEN 0 ELSE @ ] ]

\* the forEach of reParseCSVForSummarize over mappedRows
ReClassify(mapped) ==
    [ i \in 1..Len(mapped) |->
        [ hierarchy       |-> mapped[i].hierarchy,
          itemid          |-> mapped[i].itemid,
          quantity        |-> mapped[i].quantity,
          isAssembly      |-> IsAssembly(mapped[i].hierarchy, HierarchySet(mapped)),
          parentHierarchy |-> ParentHierarchy(mapped[i].hierarchy) ] ]

\* the forEach of getInputData over mappedRows
Classify(mapped) ==
    [ i \in 1..Len(mapped) |->
        LET asm == IsAssembly(mapped[i].hierarchy, HierarchySet(mapped))
        IN  [ hierarchy        |-> mapped[i].hierarchy,
              itemid           |-> mapped[i].itemid,
              quantity         |-> mapped[i].quantity,
              isAssembly       |-> asm,
              recordType       |-> IF asm THEN "assemblyitem" ELSE "inventoryitem",
              mrpRotationIndex |-> IF asm THEN Undefined
                                   ELSE InventoryIndexAt(mapped, i),
              parentHierarchy  |-> ParentHierarchy(mapped[i].hierarchy) ] ]

\* --------------------------------------------------------------------------
\* Program constants
\* --------------------------------------------------------------------------
\* DEFAULT_CONFIG.locationIds
LocationIds == <<2, 13>>
\* MRP_LOCATION_ROTATION.leadTimes and .lotSizingMethods
LeadTimes == <<5, 14, 30, 100>>
LotSizingMethods ==
    <<"LOT_FOR_LOT", "FIXED_LOT_SIZE", "FIXED_LOT_MULTIPLE", "PERIODIC_LOT_SIZE">>
\* DEFAULT_CONFIG.subsidiaryId, the fallback of DEFAULTS.subsidiaryId
SubsidiaryId == 2
\* DEFAULT_CONFIG.itemLocationDefaults.leadtime
DefaultLeadTime == 7
\* config.prospectName, the run namespace
ProspectName == config.prospectName
\* the two reduce keys written by map()
Stages == {"1_inventory", "2_assembly"}

\* --------------------------------------------------------------------------
\* Bounds of the pipeline development
\* --------------------------------------------------------------------------
MaxRows == 2
MaxFaults == 1

\* the state of the pipeline variables while only the classifier is studied
PipelineUnused ==
    /\ rows = <<>> /\ setupMRP = FALSE /\ config = <<>>
    /\ items = <<>> /\ boms = <<>> /\ revs = <<>> /\ catExists = FALSE
    /\ cache = <<>>
    /\ phase = "off" /\ input = <<>> /\ mapIdx = 0
    /\ groups = <<>> /\ wk = <<>> /\ sRows = <<>> /\ sIdx = 0 /\ sum = <<>>
    /\ faults = 0 /\ dirty = FALSE /\ wrote = FALSE /\ prev = <<>>
    /\ lastBom = <<>> /\ lastLink = <<>> /\ lastFailed = {}
    /\ runs = <<>> /\ ident = <<>> /\ parse = <<>>

\* --------------------------------------------------------------------------
\* Record store: lookups, identities, uniqueness
\* --------------------------------------------------------------------------
\* prospectName + '_' + itemid
ExternalId(prospectName, itemid) == prospectName \o "_" \o itemid
\* a variant of BomName that leaves the assembly's itemid out
BomNameWithoutItem(assemblyItemId) == "BOM"
\* assemblyItemId + '_BOM' and assemblyItemId + '_REV_A'
BomName(assemblyItemId) == assemblyItemId \o "_BOM"
RevisionName(assemblyItemId) == assemblyItemId \o "_REV_A"

\* search on externalid, getRange(0, 1): the first match's internal id, 0 for none
FindByExternalId(recs, externalId) ==
    IF \E i \in 1..Len(recs) : recs[i].externalid = externalId
    THEN CHOOSE i \in 1..Len(recs) :
            /\ recs[i].externalid = externalId
            /\ \A j \in 1..(i - 1) : recs[j].externalid # externalId
    ELSE 0

\* a variant of findItemByExternalId that answers a throwing search as if it
\* had not thrown
findItemByExternalIdDespiteError(externalId, searchError) ==
    FindByExternalId(items, externalId)

\* a search that throws is caught and answered with null
findItemByExternalId(externalId, searchError) ==
    IF searchError THEN 0 ELSE FindByExternalId(items, externalId)

findBOMByExternalId(externalId, searchError) ==
    IF searchError THEN 0 ELSE FindByExternalId(boms, externalId)

findBOMRevisionByExternalId(externalId, searchError) ==
    IF searchError THEN 0 ELSE FindByExternalId(revs, externalId)

\* save() of a new record whose externalid is already taken is rejected
SaveRejected(recs, externalId) ==
    \E i \in 1..Len(recs) : recs[i].externalid = externalId

\* the fault sets an action may draw: at most the remaining budget, and only
\* operations the action really performs
RECURSIVE UpTo(_, _)
UpTo(points, n) ==
    IF n <= 0 THEN {{}}
    ELSE UpTo(points, n - 1)
         \cup { F \cup {p} : F \in UpTo(points, n - 1), p \in points }

FaultChoices(points) == UpTo(points, MaxFaults - faults)

Indices(n) == [ i \in 1..n |-> i ]

\* rowData.mrpRotationIndex || 0
RotationIndex(rowData) ==
    IF rowData.mrpRotationIndex = Undefined THEN 0 ELSE rowData.mrpRotationIndex

\* --------------------------------------------------------------------------
\* Phase 2 helpers: item locations and MRP settings
\* --------------------------------------------------------------------------
ExpectedSupplyType(rowData) == IF rowData.isAssembly THEN "BUILD" ELSE "PURCHASE"
ExpectedLeadTime(rowData, locIndex) ==
    LeadTimes[((RotationIndex(rowData) + locIndex) % Len(LeadTimes)) + 1]
ExpectedLotSizing(rowData) ==
    LotSizingMethods[(RotationIndex(rowData) % Len(LotSizingMethods)) + 1]

\* the itemlocationconfiguration createItemLocations saves for LocationIds[k]
NewItemLocation(rowData, k) ==
    IF setupMRP
    THEN [ location   |-> LocationIds[k],
           supplytype |-> ExpectedSupplyType(rowData),
           lotsizing  |-> ExpectedLotSizing(rowData),
           leadtime   |-> ExpectedLeadTime(rowData, k - 1) ]
    ELSE [ location   |-> LocationIds[k],
           supplytype |-> "",
           lotsizing  |-> "",
           leadtime   |-> DefaultLeadTime ]

\* createItemLocations: one configuration per location id, a failed one skipped
createItemLocations(locs, rowData, F) ==
    LET ok == SelectSeq(Indices(Len(LocationIds)), LAMBDA k : <<"loc", k>> \notin F)
    IN  locs \o [ j \in 1..Len(ok) |-> NewItemLocation(rowData, ok[j]) ]

\* getExistingItemLocations: the location ids already configured for the item
getExistingItemLocations(locs, searchError) ==
    IF searchError THEN {} ELSE { locs[i].location : i \in 1..Len(locs) }

\* the location indices ensureItemLocations has to add
MissingLocations(locs, searchError) ==
    { k \in 1..Len(LocationIds) :
        LocationIds[k] \notin getExistingItemLocations(locs, searchError) }

\* mutant: the existence check is dropped, every location is added again
ensureItemLocationsNoCheck(locs, rowData, F) ==
    LET ok == SelectSeq(Indices(Len(LocationIds)), LAMBDA k : <<"loc", k>> \notin F)
    IN  locs \o [ j \in 1..Len(ok) |->
                    [ location   |-> LocationIds[ok[j]],
                      supplytype |-> "",
                      lotsizing  |-> "",
                      leadtime   |-> DefaultLeadTime ] ]

\* ensureItemLocations: add the configured locations the item lacks
ensureItemLocations(locs, rowData, F) ==
    LET missing == MissingLocations(locs, <<"locsearch", 0>> \in F)
        ok == SelectSeq(Indices(Len(LocationIds)),
                        LAMBDA k : k \in missing /\ <<"loc", k>> \notin F)
    IN  locs \o [ j \in 1..Len(ok) |->
                    [ location   |-> LocationIds[ok[j]],
                      supplytype |-> "",
                      lotsizing  |-> "",
                      leadtime   |-> DefaultLeadTime ] ]

\* record.load({type: rowData.recordType, id}) throws when the record is of
\* another type
LoadFails(item, recordType) == item.type # recordType

ExpectedMethod(rowData) == IF rowData.isAssembly THEN "MPS" ELSE "MRP"

\* ensureMRPSettings: the item after the call (unchanged when nothing is saved)
ensureMRPSettings(item, rowData, F) ==
    IF ~setupMRP THEN item
    ELSE IF LoadFails(item, rowData.recordType) THEN item
    ELSE LET cat == IF rowData.planningItemCategoryId # 0 /\ item.category = 0
                    THEN rowData.planningItemCategoryId ELSE item.category
             upd == [item EXCEPT !.category = cat, !.method = ExpectedMethod(rowData)]
         IN  IF <<"mrp", 0>> \in F THEN item ELSE upd

\* needsUpdate of ensureLocationMRPSettings for the configuration at locIndex
LocationNeedsUpdate(loc, rowData, locIndex) ==
    \/ loc.supplytype # ExpectedSupplyType(rowData)
    \/ loc.lotsizing = ""
    \/ loc.lotsizing # ExpectedLotSizing(rowData)
    \/ loc.leadtime # ExpectedLeadTime(rowData, locIndex)

\* ensureLocationMRPSettings: the item's configurations after the call
ensureLocationMRPSettings(locs, rowData, F) ==
    IF ~setupMRP THEN locs
    ELSE [ i \in 1..Len(locs) |->
            IF LocationNeedsUpdate(locs[i], rowData, i - 1) /\ <<"locmrp", i>> \notin F
            THEN [ locs[i] EXCEPT !.supplytype = ExpectedSupplyType(rowData),
                                  !.leadtime   = ExpectedLeadTime(rowData, i - 1),
                                  !.lotsizing  = ExpectedLotSizing(rowData) ]
            ELSE locs[i] ]

\* the existing-item branch of reduce(): locations, MRP, location MRP
RepairItem(item, rowData, F) ==
    LET locs1 == ensureItemLocations(item.locs, rowData, F)
        item1 == ensureMRPSettings([item EXCEPT !.locs = locs1], rowData, F)
    IN  [ item1 EXCEPT !.locs = ensureLocationMRPSettings(locs1, rowData, F) ]

\* the store operations the existing-item branch performs on this item and
\* that can fail
RepairPoints(item, rowData) ==
    LET locsA == ensureItemLocations(item.locs, rowData, {})
    IN  { <<"locsearch", 0>> }
        \cup { <<"loc", k>> : k \in MissingLocations(item.locs, FALSE) }
        \cup ( IF ensureMRPSettings(item, rowData, {}) # item
               THEN { <<"mrp", 0>> } ELSE {} )
        \cup ( IF setupMRP
               THEN { <<"locmrp", i>> : i \in { j \in 1..Len(locsA) :
                        LocationNeedsUpdate(locsA[j], rowData, j - 1) } }
               ELSE {} )

\* the record createItem saves
NewItem(rowData) ==
    [ externalid |-> ExternalId(rowData.prospectName, rowData.itemid),
      type       |-> rowData.recordType,
      method     |-> IF setupMRP THEN ExpectedMethod(rowData) ELSE "",
      category   |-> IF setupMRP THEN rowData.planningItemCategoryId ELSE 0,
      locs       |-> <<>>,
      links      |-> <<>> ]

\* --------------------------------------------------------------------------
\* Phase 3 helpers: components, BOM, revision, link
\* --------------------------------------------------------------------------
NoBomCall == [ called |-> FALSE, existed |-> FALSE, searchError |-> FALSE,
               firstId |-> 0, bomId |-> 0, created |-> FALSE,
               revCalled |-> FALSE, revExisted |-> FALSE, revSearchError |-> FALSE,
               revFirstId |-> 0, revisionId |-> 0, revCreated |-> FALSE ]
NoLinkCall == [ called |-> FALSE, pre |-> "none", failed |-> FALSE,
                linked |-> FALSE, asm |-> 0, bom |-> 0, linesBefore |-> 0,
                itemBefore |-> <<>> ]

\* allRows.filter(row => row.isAssembly)
Assemblies(allRows) == SelectSeq(allRows, LAMBDA r : r.isAssembly)

\* a variant of DirectChildren that takes every descendant of the assembly
DirectChildrenAnyDepth(allRows, assemblyHierarchy) ==
    SelectSeq(allRows, LAMBDA r :
        /\ r.hierarchy # assemblyHierarchy
        /\ StartsWith(r.hierarchy, assemblyHierarchy \o <<".">>))

\* allRows.filter(row => row.parentHierarchy === assemblyHierarchy)
DirectChildren(allRows, assemblyHierarchy) ==
    SelectSeq(allRows, LAMBDA r : r.parentHierarchy = assemblyHierarchy)

\* child.bomFields.quantity || 1
QuantityOr1(child) == IF child.quantity = 0 THEN 1 ELSE child.quantity

\* mutant: a child is pushed whether or not its item was found
BuildComponentsUnchecked(children, prospectName, F) ==
    [ k \in 1..Len(children) |->
        [ itemId     |-> children[k].itemid,
          internalId |-> findItemByExternalId(
                            ExternalId(prospectName, children[k].itemid),
                            <<"child", k>> \in F),
          quantity   |-> QuantityOr1(children[k]) ] ]

\* the component list of summarize(): one entry per child whose item is found
BuildComponents(children, prospectName, F) ==
    LET idOf(k) == findItemByExternalId(
                      ExternalId(prospectName, children[k].itemid),
                      <<"child", k>> \in F)
        ok == SelectSeq(Indices(Len(children)), LAMBDA k : idOf(k) # 0)
    IN  [ j \in 1..Len(ok) |->
            [ itemId     |-> children[ok[j]].itemid,
              internalId |-> idOf(ok[j]),
              quantity   |-> QuantityOr1(children[ok[j]]) ] ]

\* mutant: the existence check is skipped, a BOM is always created
createOrGetBOMNoLookup(assemblyItemId, prospectName, F) ==
    LET externalId == ExternalId(prospectName, BomName(assemblyItemId))
    IN  IF <<"bomsave", 0>> \in F \/ SaveRejected(boms, externalId)
        THEN [ bomId |-> 0, created |-> FALSE, boms |-> boms ]
        ELSE [ bomId |-> Len(boms) + 1, created |-> TRUE,
               boms |-> Append(boms, [externalid |-> externalId]) ]

\* createOrGetBOM: {bomId, created} and the bom records afterwards
createOrGetBOM(assemblyItemId, prospectName, F) ==
    LET externalId == ExternalId(prospectName, BomName(assemblyItemId))
        existingBom == findBOMByExternalId(externalId, <<"bomsearch", 0>> \in F)
    IN  IF existingBom # 0
        THEN [ bomId |-> existingBom, created |-> FALSE, boms |-> boms ]
        ELSE IF <<"bomsave", 0>> \in F \/ SaveRejected(boms, externalId)
        THEN [ bomId |-> 0, created |-> FALSE, boms |-> boms ]
        ELSE [ bomId |-> Len(boms) + 1, created |-> TRUE,
               boms |-> Append(boms, [externalid |-> externalId]) ]

\* a variant of createOrGetBOMRevision that rewrites the components of a
\* revision it finds
createOrGetBOMRevisionRewrite(bomId, assemblyItemId, components, prospectName, F) ==
    LET externalId == ExternalId(prospectName, RevisionName(assemblyItemId))
        existingRevision ==
            findBOMRevisionByExternalId(externalId, <<"revsearch", 0>> \in F)
        added == SelectSeq(Indices(Len(components)), LAMBDA k : <<"comp", k>> \notin F)
        rec == [ externalid |-> externalId,
                 billofmaterials |-> bomId,
                 component |-> [ j \in 1..Len(added) |->
                                   [ item        |-> components[added[j]].internalId,
                                     bomquantity |-> components[added[j]].quantity ] ] ]
    IN  IF existingRevision # 0
        THEN [ revisionId |-> existingRevision, created |-> FALSE, exists |-> TRUE,
               revs |-> [revs EXCEPT ![existingRevision] = rec] ]
        ELSE IF <<"revsave", 0>> \in F \/ SaveRejected(revs, externalId)
        THEN [ revisionId |-> 0, created |-> FALSE, exists |-> FALSE, revs |-> revs ]
        ELSE [ revisionId |-> Len(revs) + 1, created |-> TRUE, exists |-> FALSE,
               revs |-> Append(revs, rec) ]

\* createOrGetBOMRevision: {revisionId, created, exists} and the revisions afterwards
createOrGetBOMRevision(bomId, assemblyItemId, components, prospectName, F) ==
    LET externalId == ExternalId(prospectName, RevisionName(assemblyItemId))
        existingRevision ==
            findBOMRevisionByExternalId(externalId, <<"revsearch", 0>> \in F)
        added == SelectSeq(Indices(Len(components)), LAMBDA k : <<"comp", k>> \notin F)
        rec == [ externalid |-> externalId,
                 billofmaterials |-> bomId,
                 component |-> [ j \in 1..Len(added) |->
                                   [ item        |-> components[added[j]].internalId,
                                     bomquantity |-> components[added[j]].quantity ] ] ]
    IN  IF existingRevision # 0
        THEN [ revisionId |-> existingRevision, created |-> FALSE, exists |-> TRUE,
               revs |-> revs ]
        ELSE IF <<"revsave", 0>> \in F \/ SaveRejected(revs, externalId)
        THEN [ revisionId |-> 0, created |-> FALSE, exists |-> FALSE, revs |-> revs ]
        ELSE [ revisionId |-> Len(revs) + 1, created |-> TRUE, exists |-> FALSE,
               revs |-> Append(revs, rec) ]

\* mutant: the scan of the sublist never finds the bom
LinkLineNone(links, bomId) == 0

\* the line of the billofmaterials sublist that holds bomId, 0 for none
LinkLine(links, bomId) ==
    IF \E i \in 1..Len(links) : links[i].billofmaterials = bomId
    THEN CHOOSE i \in 1..Len(links) :
            /\ links[i].billofmaterials = bomId
            /\ \A j \in 1..(i - 1) : links[j].billofmaterials # bomId
    ELSE 0

\* mutant: an existing link is left as it is, whatever its masterdefault
ensureBOMLinkedToAssemblySkipExisting(item, bomId, F) ==
    LET line == LinkLine(item.links, bomId)
    IN  IF LoadFails(item, "assemblyitem") \/ <<"link", 0>> \in F
        THEN [ linked |-> FALSE, links |-> item.links ]
        ELSE IF line # 0
        THEN [ linked |-> FALSE, links |-> item.links ]
        ELSE [ linked |-> TRUE,
               links |-> Append(item.links,
                                [billofmaterials |-> bomId, masterdefault |-> TRUE]) ]

\* ensureBOMLinkedToAssembly: the return value and the item's sublist afterwards;
\* a failing load or save is caught and answered with false
ensureBOMLinkedToAssembly(item, bomId, F) ==
    LET line == LinkLine(item.links, bomId)
    IN  IF LoadFails(item, "assemblyitem") \/ <<"link", 0>> \in F
        THEN [ linked |-> FALSE, links |-> item.links ]
        ELSE IF line # 0
        THEN IF item.links[line].masterdefault
             THEN [ linked |-> FALSE, links |-> item.links ]
             ELSE [ linked |-> TRUE,
                    links |-> [item.links EXCEPT ![line].masterdefault = TRUE] ]
        ELSE [ linked |-> TRUE,
               links |-> Append(item.links,
                                [billofmaterials |-> bomId, masterdefault |-> TRUE]) ]

\* does ensureBOMLinkedToAssembly reach a save for this item and bom
LinkWrites(item, bomId) ==
    /\ ~LoadFails(item, "assemblyitem")
    /\ LET line == LinkLine(item.links, bomId)
       IN  line = 0 \/ ~item.links[line].masterdefault

\* the body of assemblies.forEach in summarize() for one assembly row, with the
\* store operations in F failing: the store and counters afterwards, and the
\* operations the body performed (used)
SummarizeOne(assembly, allRows, F) ==
    LET prospectName == ProspectName
        same == [ items |-> items, boms |-> boms, revs |-> revs,
                  lastBom |-> lastBom, lastLink |-> lastLink ]
        assemblyInternalId ==
            findItemByExternalId(ExternalId(prospectName, assembly.itemid),
                                 <<"asm", 0>> \in F)
        directChildren == DirectChildren(allRows, assembly.hierarchy)
        components == BuildComponents(directChildren, prospectName, F)
        childPoints == { <<"child", k>> : k \in 1..Len(directChildren) }
        bomResult == createOrGetBOM(assembly.itemid, prospectName, F)
        bomExt == ExternalId(prospectName, BomName(assembly.itemid))
        bomPoints == {<<"bomsearch", 0>>}
                     \cup (IF findBOMByExternalId(bomExt, <<"bomsearch", 0>> \in F) = 0
                           THEN {<<"bomsave", 0>>} ELSE {})
        revExt == ExternalId(prospectName, RevisionName(assembly.itemid))
        revisionResult ==
            createOrGetBOMRevision(bomResult.bomId, assembly.itemid, components,
                                   prospectName, F)
        revPoints == {<<"revsearch", 0>>}
                     \cup (IF findBOMRevisionByExternalId(revExt, <<"revsearch", 0>> \in F) = 0
                           THEN {<<"revsave", 0>>}
                                \cup { <<"comp", k>> : k \in 1..Len(components) }
                           ELSE {})
        bomCall == [ called |-> TRUE,
                     existed |-> SaveRejected(boms, bomExt),
                     searchError |-> <<"bomsearch", 0>> \in F,
                     firstId |-> FindByExternalId(boms, bomExt),
                     bomId |-> bomResult.bomId,
                     created |-> bomResult.created,
                     revCalled |-> bomResult.bomId # 0,
                     revExisted |-> bomResult.bomId # 0 /\ SaveRejected(revs, revExt),
                     revSearchError |-> <<"revsearch", 0>> \in F,
                     revFirstId |-> IF bomResult.bomId # 0
                                    THEN FindByExternalId(revs, revExt) ELSE 0,
                     revisionId |-> IF bomResult.bomId # 0
                                    THEN revisionResult.revisionId ELSE 0,
                     revCreated |-> bomResult.bomId # 0 /\ revisionResult.created ]
        asmItem == items[assemblyInternalId]
        linkResult == ensureBOMLinkedToAssembly(asmItem, bomResult.bomId, F)
        line == LinkLine(asmItem.links, bomResult.bomId)
        linkPoints == IF LinkWrites(asmItem, bomResult.bomId)
                      THEN {<<"link", 0>>} ELSE {}
        linkCall == [ called |-> TRUE,
                      pre |-> IF line = 0 THEN "none"
                              ELSE IF asmItem.links[line].masterdefault
                                   THEN "preferred" ELSE "plain",
                      failed |-> LoadFails(asmItem, "assemblyitem")
                                 \/ <<"link", 0>> \in F,
                      linked |-> linkResult.linked,
                      asm |-> assemblyInternalId,
                      bom |-> bomResult.bomId,
                      linesBefore |-> Len(asmItem.links),
                      itemBefore |-> asmItem ]
    IN  IF assemblyInternalId = 0
        THEN same @@ [ sum |-> [sum EXCEPT !.bomsFailed = @ + 1],
                       used |-> {<<"asm", 0>>}, threw |-> FALSE ]
        ELSE IF Len(directChildren) = 0
        THEN same @@ [ sum |-> sum, used |-> {<<"asm", 0>>}, threw |-> FALSE ]
        ELSE IF Len(components) = 0
        THEN same @@ [ sum |-> [sum EXCEPT !.bomsFailed = @ + 1],
                       used |-> {<<"asm", 0>>} \cup childPoints,
                       threw |-> FALSE ]
        ELSE IF bomResult.bomId = 0
        THEN [ items |-> items, boms |-> boms, revs |-> revs,
               lastBom |-> bomCall, lastLink |-> lastLink,
               sum |-> [sum EXCEPT !.bomsFailed = @ + 1],
               used |-> {<<"asm", 0>>} \cup childPoints \cup bomPoints,
               threw |-> SaveRejected(boms, bomExt) ]
        ELSE [ items |-> [items EXCEPT ![assemblyInternalId].links = linkResult.links],
               boms |-> bomResult.boms,
               revs |-> revisionResult.revs,
               lastBom |-> bomCall,
               lastLink |-> linkCall,
               sum |-> [sum EXCEPT
                   !.bomsCreated = IF bomResult.created THEN @ + 1 ELSE @,
                   !.revisionsCreated = IF revisionResult.created THEN @ + 1 ELSE @,
                   !.revisionsFailed =
                       IF ~revisionResult.created /\ ~revisionResult.exists
                       THEN @ + 1 ELSE @,
                   !.linksCreated = IF linkResult.linked THEN @ + 1 ELSE @ ],
               used |-> {<<"asm", 0>>} \cup childPoints \cup bomPoints
                        \cup revPoints \cup linkPoints,
               threw |-> \/ ( /\ revisionResult.revisionId = 0
                               /\ SaveRejected(revs, revExt) )
                         \/ LoadFails(asmItem, "assemblyitem") ]

\* every store operation summarize() can perform for one assembly
SummarizePoints(children) ==
    { <<"asm", 0>>, <<"bomsearch", 0>>, <<"bomsave", 0>>, <<"revsearch", 0>>,
      <<"revsave", 0>>, <<"link", 0>> }
    \cup { <<"child", k>> : k \in 1..children }
    \cup { <<"comp", k>> : k \in 1..children }

\* --------------------------------------------------------------------------
\* Pipeline: inputs and initial state
\* --------------------------------------------------------------------------
PipelineKeys ==
    { <<"1">>, <<"1", ".", "1">>, <<"1", ".", "1", ".", "1">> }
ItemIds == {"A", "B"}
\* the quantity cell of a row: the rows at level 1.1 carry one
QuantityOf(k) == IF k = <<"1", ".", "1">> THEN "2" ELSE ""

PipelineRowValues ==
    { [hierarchy |-> k, itemid |-> id, quantity |-> QuantityOf(k)] :
        k \in PipelineKeys, id \in ItemIds }

\* the item ids are interchangeable: the first row's is called A
PipelineInputs ==
    { rs \in UNION { [1..n -> PipelineRowValues] : n \in 1..MaxRows } :
        rs[1].itemid = "A" }

\* a run configuration: is the script parameter custscript_bom_config_file_id
\* set, the text config.prospectName contributes to an external id
\* ("undefined" when the config has none), and does the CSV hold its header
\* line only
OkConfig == [ fileId |-> TRUE, prospectName |-> "P", headerOnly |-> FALSE ]
NoParameter == [ OkConfig EXCEPT !.fileId = FALSE ]
NoNamespace == [ OkConfig EXCEPT !.prospectName = "undefined" ]
HeaderOnly == [ OkConfig EXCEPT !.headerOnly = TRUE ]

\* the inputs tried with a configuration that lacks something
ConfigInputs ==
    { rs \in PipelineInputs :
        /\ rs[1].hierarchy = <<"1">>
        /\ Len(rs) = 2 => rs[2] = [ hierarchy |-> <<"1", ".", "1">>, itemid |-> "B",
                                    quantity |-> QuantityOf(<<"1", ".", "1">>) ] }

\* the rows of the documented notation: 1.0 and its children 1.1, 1.2, 1.3
DocNotationInput ==
    << [ hierarchy |-> <<"1", ".", "0">>, itemid |-> "A", quantity |-> "" ],
       [ hierarchy |-> <<"1", ".", "1">>, itemid |-> "B", quantity |-> "2" ],
       [ hierarchy |-> <<"1", ".", "2">>, itemid |-> "C", quantity |-> "" ],
       [ hierarchy |-> <<"1", ".", "3">>, itemid |-> "D", quantity |-> "" ] >>

\* a composite, its child that is a composite too, and the grandchild
TwoLevelInput ==
    << [ hierarchy |-> <<"1">>, itemid |-> "A", quantity |-> "" ],
       [ hierarchy |-> <<"1", ".", "1">>, itemid |-> "B", quantity |-> "2" ],
       [ hierarchy |-> <<"1", ".", "1", ".", "1">>, itemid |-> "C", quantity |-> "" ] >>

\* a composite and its two children
SiblingsInput ==
    << [ hierarchy |-> <<"1">>, itemid |-> "A", quantity |-> "" ],
       [ hierarchy |-> <<"1", ".", "1">>, itemid |-> "B", quantity |-> "2" ],
       [ hierarchy |-> <<"1", ".", "2">>, itemid |-> "C", quantity |-> "" ] >>

\* a composite and its child, the child's quantity cell reading "Infinity"
InfiniteQuantityInput ==
    << [ hierarchy |-> <<"1">>, itemid |-> "A", quantity |-> "" ],
       [ hierarchy |-> <<"1", ".", "1">>, itemid |-> "B", quantity |-> "Infinity" ] >>

\* a composite and its child, the child's quantity cell negative, zero or not
\* a number
QuantityCellInputs ==
    { << [ hierarchy |-> <<"1">>, itemid |-> "A", quantity |-> "" ],
         [ hierarchy |-> <<"1", ".", "1">>, itemid |-> "B", quantity |-> cell ] >> :
      cell \in {"-2", "0", "abc"} }

\* threw: the operation that threw out of the call's last createItem
\* CSVs with a row to discard: a blank itemid cell under a parent, a blank
\* hierarchy cell, and cells with a leading blank
BlankCellInputs ==
    { << [ hierarchy |-> <<"1">>, itemid |-> "A", quantity |-> "" ],
         [ hierarchy |-> <<"1", ".", "1">>, itemid |-> " ", quantity |-> "2" ] >>,
      << [ hierarchy |-> <<" ">>, itemid |-> "B", quantity |-> "" ],
         [ hierarchy |-> <<"1">>, itemid |-> "A", quantity |-> "" ] >>,
      << [ hierarchy |-> <<" ", "1">>, itemid |-> " A", quantity |-> "" ],
         [ hierarchy |-> <<"1", ".", "1">>, itemid |-> "", quantity |-> "" ] >> }

IdleWorker == [ pc |-> "done", idx |-> 0, itemId |-> 0,
                created |-> 0, skipped |-> 0, failed |-> 0, threw |-> "" ]
\* the counters of summarize(), whether the summary was logged, and
\* context.inputSummary.error (getInputData threw)
ZeroSum == [ bomsCreated |-> 0, bomsFailed |-> 0, revisionsCreated |-> 0,
             revisionsFailed |-> 0, linksCreated |-> 0, logged |-> FALSE,
             inputError |-> FALSE ]

\* the records of the store by identity: the planning category, items with
\* their type and locations, links, boms, revisions with their components
Entities ==
    [ category |-> catExists,
      items |-> [ i \in 1..Len(items) |->
                    [ externalid |-> items[i].externalid,
                      type       |-> items[i].type,
                      locations  |-> [ k \in 1..Len(items[i].locs) |->
                                         items[i].locs[k].location ],
                      links      |-> [ k \in 1..Len(items[i].links) |->
                                         items[i].links[k].billofmaterials ] ] ],
      boms  |-> boms,
      revs  |-> revs ]

NoEntities == [ category |-> FALSE, items |-> <<>>, boms |-> <<>>, revs |-> <<>> ]

PipelineInit ==
    /\ \/ config = OkConfig
          /\ rows \in PipelineInputs
                     \cup {InfiniteQuantityInput, DocNotationInput, TwoLevelInput,
                           SiblingsInput}
                     \cup BlankCellInputs \cup QuantityCellInputs
       \/ config \in {NoParameter, NoNamespace} /\ rows \in ConfigInputs
       \/ config = HeaderOnly /\ rows = <<>>
    /\ setupMRP \in BOOLEAN
    /\ items = <<>> /\ boms = <<>> /\ revs = <<>>
    /\ catExists = FALSE
    /\ cache = [hit |-> FALSE, rows |-> <<>>]
    /\ phase = "idle" /\ input = <<>> /\ mapIdx = 0
    /\ groups = [w \in Stages |-> <<>>]
    /\ wk = [w \in Stages |-> IdleWorker]
    /\ sRows = <<>> /\ sIdx = 0 /\ sum = ZeroSum
    /\ faults = 0 /\ dirty = FALSE /\ wrote = FALSE
    /\ prev = [valid |-> FALSE, dirty |-> FALSE, entities |-> NoEntities]
    /\ lastBom = NoBomCall /\ lastLink = NoLinkCall /\ lastFailed = {}
    /\ cRows = <<>> /\ cOut = <<>> /\ cDone = TRUE
    /\ runs = <<>> /\ ident = <<>> /\ parse = <<>>

\* a step in which the store operations F fail by injection, and in which
\* some store operation threw for a reason of its own when threw is TRUE
Inject(F, threw) ==
    /\ faults' = faults + Cardinality(F)
    /\ lastFailed' = F
    /\ dirty' = (dirty \/ F # {} \/ threw)

\* --------------------------------------------------------------------------
\* Phase 1: getInputData and map
\* --------------------------------------------------------------------------
\* createOrGetPlanningItemCategory: the id (0 for null) and whether the
\* category record exists afterwards; a failing search or save answers null
createOrGetPlanningItemCategory(F) ==
    IF <<"category", 0>> \in F THEN [id |-> 0, exists |-> catExists]
    ELSE [id |-> 1, exists |-> TRUE]

getInputData ==
    /\ phase \in {"idle", "done", "edited"}
    /\ prev' = [ valid    |-> phase \in {"done", "edited"},
                 dirty    |-> dirty,
                 entities |-> Entities ]
    /\ wrote' = FALSE
    /\ IF ~config.fileId
       THEN \* 'Config file ID parameter is required' is thrown first of all
            /\ phase' = "aborted"
            /\ sum' = [ZeroSum EXCEPT !.inputError = TRUE]
            /\ dirty' = TRUE
            /\ lastFailed' = {}
            /\ UNCHANGED <<catExists, cache, input, faults>>
       ELSE \E F \in FaultChoices((IF setupMRP THEN {<<"category", 0>>} ELSE {})
                                  \cup {<<"csv", 0>>}) :
            \E kept \in {MappedRows(rows)} : \E mappedRows \in {Classify(kept)} :
            LET category == IF setupMRP THEN createOrGetPlanningItemCategory(F)
                            ELSE [id |-> 0, exists |-> catExists]
                \* file.load of the CSV throws, or the CSV has no data line
                fatal == <<"csv", 0>> \in F \/ config.headerOnly
            IN  /\ catExists' = category.exists
                /\ faults' = faults + Cardinality(F)
                /\ lastFailed' = F
                /\ dirty' = (F # {} \/ fatal)
                /\ IF fatal
                   THEN /\ phase' = "aborted"
                        /\ sum' = [ZeroSum EXCEPT !.inputError = TRUE]
                        /\ UNCHANGED <<cache, input>>
                   ELSE /\ phase' = "map"
                        /\ sum' = ZeroSum
                        /\ cache' = [hit |-> TRUE, rows |-> JsonRoundTrip(mappedRows)]
                        /\ input' = [ i \in 1..Len(mappedRows) |->
                                        mappedRows[i] @@
                                        [ prospectName |-> ProspectName,
                                          planningItemCategoryId |-> category.id ] ]
    /\ UNCHANGED <<cvars, rvars, input_vars, items, boms, revs, mapIdx, groups, wk,
                   sRows, sIdx, lastBom, lastLink>>

\* a variant of MapKey that writes every row under the key of the leaves
MapKeyAlwaysInventory(rowData) == "1_inventory"

\* the key map() writes the row under
MapKey(rowData) == IF rowData.isAssembly THEN "2_assembly" ELSE "1_inventory"

map ==
    /\ phase = "map"
    /\ mapIdx < Len(input)
    /\ LET rowData == input[mapIdx + 1]
       IN  groups' = [groups EXCEPT ![MapKey(rowData)] = Append(@, rowData)]
    /\ mapIdx' = mapIdx + 1
    /\ UNCHANGED <<cvars, rvars, input_vars, store_vars, phase, input, wk,
                   sRows, sIdx, sum, obs_vars>>

\* the executor starts one reduce() per key that has values, once every row
\* is mapped
StartReduce ==
    /\ phase = "map"
    /\ mapIdx = Len(input)
    /\ phase' = "reduce"
    /\ wk' = [w \in Stages |->
                IF Len(groups[w]) = 0 THEN IdleWorker
                ELSE [IdleWorker EXCEPT !.pc = "lookup", !.idx = 1]]
    /\ UNCHANGED <<cvars, rvars, input_vars, store_vars, input, mapIdx, groups,
                   sRows, sIdx, sum, obs_vars>>

\* --------------------------------------------------------------------------
\* Phase 2: reduce, one row at a time for each key
\* --------------------------------------------------------------------------
\* a variant of NextRow in which reduce() returns after a failed row
NextRowStopAfterFailure(w, state) ==
    IF state.idx < Len(groups[w]) /\ state.failed = 0
    THEN [state EXCEPT !.pc = "lookup", !.idx = @ + 1, !.itemId = 0]
    ELSE [state EXCEPT !.pc = "done", !.itemId = 0]

\* records.forEach moves on to the next row, or reduce() returns
NextRow(w, state) ==
    IF state.idx < Len(groups[w])
    THEN [state EXCEPT !.pc = "lookup", !.idx = @ + 1, !.itemId = 0]
    ELSE [state EXCEPT !.pc = "done", !.itemId = 0]

\* ensureVendorSubsidiary: with an expected subsidiary it loads the item as
\* rowData.recordType; the vendor line createItem wrote already has that
\* subsidiary, so nothing is saved. Does the load throw?
ensureVendorSubsidiaryThrows(item, rowData) ==
    SubsidiaryId # 0 /\ LoadFails(item, rowData.recordType)

\* a variant of reduceLookup in which the load of ensureVendorSubsidiary is not
\* caught: the row already counted as skipped is counted as failed too
reduceLookupRepairThrows(w) ==
    /\ phase = "reduce"
    /\ wk[w].pc = "lookup"
    /\ LET rowData == groups[w][wk[w].idx]
           externalId == ExternalId(rowData.prospectName, rowData.itemid)
       IN  \E searchError \in {FALSE} \cup {e \in {TRUE} : faults < MaxFaults} :
            LET existingItemId == findItemByExternalId(externalId, searchError)
            IN  IF existingItemId = 0
                THEN /\ wk' = [wk EXCEPT ![w].pc = "create"]
                     /\ Inject(IF searchError THEN {<<"lookup", 0>>} ELSE {}, FALSE)
                     /\ UNCHANGED <<items, wrote>>
                ELSE /\ ~searchError
                     /\ \E F \in FaultChoices(RepairPoints(items[existingItemId], rowData)) :
                          /\ items' = [items EXCEPT ![existingItemId] =
                                          RepairItem(@, rowData, F)]
                          /\ Inject(F, ensureVendorSubsidiaryThrows(
                                           items[existingItemId], rowData))
                     /\ wrote' = (wrote \/ items' # items)
                     /\ wk' = [wk EXCEPT ![w] =
                                  NextRow(w, [@ EXCEPT
                                     !.skipped = @ + 1,
                                     !.failed = IF ensureVendorSubsidiaryThrows(
                                                      items[existingItemId], rowData)
                                                THEN @ + 1 ELSE @])]
    /\ UNCHANGED <<cvars, rvars, input_vars, boms, revs, catExists, cache, phase,
                   input, mapIdx, groups, sRows, sIdx, sum, prev, lastBom, lastLink>>

\* findItemByExternalId, and for an existing item the idempotent repairs
reduceLookup(w) ==
    /\ phase = "reduce"
    /\ wk[w].pc = "lookup"
    /\ LET rowData == groups[w][wk[w].idx]
           externalId == ExternalId(rowData.prospectName, rowData.itemid)
       IN  \E searchError \in {FALSE} \cup {e \in {TRUE} : faults < MaxFaults} :
            LET existingItemId == findItemByExternalId(externalId, searchError)
            IN  IF existingItemId = 0
                THEN /\ wk' = [wk EXCEPT ![w].pc = "create"]
                     /\ Inject(IF searchError THEN {<<"lookup", 0>>} ELSE {}, FALSE)
                     /\ UNCHANGED <<items, wrote>>
                ELSE /\ ~searchError
                     /\ \E F \in FaultChoices(RepairPoints(items[existingItemId], rowData)) :
                          /\ items' = [items EXCEPT ![existingItemId] =
                                          RepairItem(@, rowData, F)]
                          /\ Inject(F, ensureVendorSubsidiaryThrows(
                                           items[existingItemId], rowData))
                     /\ wrote' = (wrote \/ items' # items)
                     /\ wk' = [wk EXCEPT ![w] =
                                  NextRow(w, [@ EXCEPT !.skipped = @ + 1])]
    /\ UNCHANGED <<cvars, rvars, input_vars, boms, revs, catExists, cache, phase,
                   input, mapIdx, groups, sRows, sIdx, sum, prev, lastBom, lastLink>>

\* the operations of createItem up to itemRec.save() that may fail: the setValue
\* of the tax schedule default (not wrapped), of the replenishment method
\* (wrapped in a try/catch), and the save itself when the store would accept it
CreatePoints(externalId) ==
    {<<"taxschedule", 0>>}
    \cup (IF setupMRP THEN {<<"method", 0>>} ELSE {})
    \cup (IF SaveRejected(items, externalId) THEN {} ELSE {<<"save", 0>>})

\* a variant of reduceCreate that moves on from a failed createItem without
\* counting the row
reduceCreateUncounted(w) ==
    /\ phase = "reduce"
    /\ wk[w].pc = "create"
    /\ LET rowData == groups[w][wk[w].idx]
           externalId == ExternalId(rowData.prospectName, rowData.itemid)
       IN  \E F \in FaultChoices(CreatePoints(externalId)) :
            LET unwrapped == <<"taxschedule", 0>> \in F
                saveFails == <<"save", 0>> \in F \/ SaveRejected(items, externalId)
                newItem == [ NewItem(rowData) EXCEPT
                               !.method = IF <<"method", 0>> \in F THEN "" ELSE @ ]
            IN  /\ <<"save", 0>> \in F => ~unwrapped
                /\ Inject(F, ~unwrapped /\ SaveRejected(items, externalId))
                /\ IF unwrapped \/ saveFails
                   THEN /\ wk' = [wk EXCEPT ![w] =
                                     NextRow(w, [@ EXCEPT
                                        !.failed = @,
                                        !.threw = IF unwrapped THEN "taxschedule"
                                                  ELSE "save"])]
                        /\ UNCHANGED <<items, wrote>>
                   ELSE /\ items' = Append(items, newItem)
                        /\ wrote' = TRUE
                        /\ wk' = [wk EXCEPT ![w].pc = "locs",
                                            ![w].itemId = Len(items) + 1,
                                            ![w].threw = ""]
    /\ UNCHANGED <<cvars, rvars, input_vars, boms, revs, catExists, cache, phase,
                   input, mapIdx, groups, sRows, sIdx, sum, prev, lastBom, lastLink>>

\* createItem up to itemRec.save(): an exception of a setValue outside a
\* try/catch or of the save leaves createItem, and reduce() counts the row failed
reduceCreate(w) ==
    /\ phase = "reduce"
    /\ wk[w].pc = "create"
    /\ LET rowData == groups[w][wk[w].idx]
           externalId == ExternalId(rowData.prospectName, rowData.itemid)
       IN  \E F \in FaultChoices(CreatePoints(externalId)) :
            LET unwrapped == <<"taxschedule", 0>> \in F
                saveFails == <<"save", 0>> \in F \/ SaveRejected(items, externalId)
                newItem == [ NewItem(rowData) EXCEPT
                               !.method = IF <<"method", 0>> \in F THEN "" ELSE @ ]
            IN  /\ <<"save", 0>> \in F => ~unwrapped
                /\ Inject(F, ~unwrapped /\ SaveRejected(items, externalId))
                /\ IF unwrapped \/ saveFails
                   THEN /\ wk' = [wk EXCEPT ![w] =
                                     NextRow(w, [@ EXCEPT
                                        !.failed = @ + 1,
                                        !.threw = IF unwrapped THEN "taxschedule"
                                                  ELSE "save"])]
                        /\ UNCHANGED <<items, wrote>>
                   ELSE /\ items' = Append(items, newItem)
                        /\ wrote' = TRUE
                        /\ wk' = [wk EXCEPT ![w].pc = "locs",
                                            ![w].itemId = Len(items) + 1,
                                            ![w].threw = ""]
    /\ UNCHANGED <<cvars, rvars, input_vars, boms, revs, catExists, cache, phase,
                   input, mapIdx, groups, sRows, sIdx, sum, prev, lastBom, lastLink>>

\* createItem after the save: createItemLocations, then the row counts as created
reduceLocations(w) ==
    /\ phase = "reduce"
    /\ wk[w].pc = "locs"
    /\ LET rowData == groups[w][wk[w].idx]
       IN  \E F \in FaultChoices({ <<"loc", k>> : k \in 1..Len(LocationIds) }) :
            /\ Inject(F, FALSE)
            /\ items' = [items EXCEPT ![wk[w].itemId].locs =
                            createItemLocations(@, rowData, F)]
    /\ wrote' = TRUE
    /\ wk' = [wk EXCEPT ![w] = NextRow(w, [@ EXCEPT !.created = @ + 1])]
    /\ UNCHANGED <<cvars, rvars, input_vars, boms, revs, catExists, cache, phase,
                   input, mapIdx, groups, sRows, sIdx, sum, prev, lastBom, lastLink>>

\* --------------------------------------------------------------------------
\* Phase 3: summarize
\* --------------------------------------------------------------------------
\* reParseCSVForSummarize: the rows re-derived from the CSV file
reParseCSVForSummarize(csvRows) == ReClassify(MappedRows(csvRows))

\* the executor's data of a finished run is gone: the rows, the groups and the
\* locals of reduce() and summarize()
RunReleased ==
    /\ input' = <<>> /\ mapIdx' = 0
    /\ groups' = [w \in Stages |-> <<>>]
    /\ wk' = [w \in Stages |-> IdleWorker]
    /\ sRows' = <<>> /\ sIdx' = 0
    /\ lastBom' = NoBomCall /\ lastLink' = NoLinkCall

\* the executor calls summarize() once every reduce() has returned
ReduceComplete == \A w \in Stages : wk[w].pc = "done"

\* summarize() up to the assemblies loop: reload the config, then the rows from
\* the cache or, when the entry is gone, from the CSV file; a failing config or
\* CSV load leaves summarize() through its outer catch
summarizeStart ==
    /\ \/ phase = "reduce" /\ ReduceComplete
       \/ phase = "aborted"
    /\ IF ~config.fileId
       THEN \* file.load of the config throws: there is no file id
            /\ phase' = "done"
            /\ RunReleased
            /\ Inject({}, TRUE)
            /\ UNCHANGED cache
       ELSE \E F \in FaultChoices({<<"config", 0>>, <<"expire", 0>>, <<"csv", 0>>}) :
            LET miss == ~cache.hit \/ <<"expire", 0>> \in F
                left == IF miss THEN [hit |-> FALSE, rows |-> <<>>] ELSE cache
            IN  /\ <<"expire", 0>> \in F => cache.hit /\ <<"config", 0>> \notin F
                /\ <<"csv", 0>> \in F => miss /\ <<"config", 0>> \notin F
                /\ cache' = left
                /\ faults' = faults + Cardinality(F)
                /\ lastFailed' = F
                /\ IF <<"config", 0>> \in F \/ <<"csv", 0>> \in F
                   THEN /\ phase' = "done"
                        /\ RunReleased
                        /\ dirty' = TRUE
                   ELSE /\ phase' = "summarize"
                        /\ \E kept \in {IF miss THEN reParseCSVForSummarize(rows)
                                          ELSE cache.rows} : sRows' = kept
                        /\ sIdx' = 0
                        /\ dirty' = dirty
                        /\ UNCHANGED <<input, mapIdx, groups, wk, lastBom, lastLink>>
    /\ UNCHANGED <<cvars, rvars, input_vars, items, boms, revs, catExists,
                   sum, wrote, prev>>

\* a variant of summarizeAssembly that leaves the loop at the first composite
\* whose item is not in the store
summarizeAssemblyStopsAtMissing ==
    /\ phase = "summarize"
    /\ sIdx < Len(Assemblies(sRows))
    /\ \E assembly \in {Assemblies(sRows)[sIdx + 1]} :
       \E children \in {Len(DirectChildren(sRows, assembly.hierarchy))} :
       \E F \in FaultChoices(SummarizePoints(children)) :
            \E out \in {SummarizeOne(assembly, sRows, F)} :
                /\ F \subseteq out.used
                /\ Inject(F, out.threw)
                /\ items' = out.items
                /\ boms' = out.boms
                /\ revs' = out.revs
                /\ sum' = out.sum
                /\ lastBom' = out.lastBom
                /\ lastLink' = out.lastLink
    /\ sIdx' = IF FindByExternalId(items,
                    ExternalId(ProspectName, Assemblies(sRows)[sIdx + 1].itemid)) # 0
               THEN sIdx + 1 ELSE Len(Assemblies(sRows))
    /\ UNCHANGED <<cvars, rvars, input_vars, catExists, cache, phase, input,
                   mapIdx, groups, wk, sRows, wrote, prev>>

\* one iteration of assemblies.forEach
summarizeAssembly ==
    /\ phase = "summarize"
    /\ sIdx < Len(Assemblies(sRows))
    /\ \E assembly \in {Assemblies(sRows)[sIdx + 1]} :
       \E children \in {Len(DirectChildren(sRows, assembly.hierarchy))} :
       \E F \in FaultChoices(SummarizePoints(children)) :
            \E out \in {SummarizeOne(assembly, sRows, F)} :
                /\ F \subseteq out.used
                /\ Inject(F, out.threw)
                /\ items' = out.items
                /\ boms' = out.boms
                /\ revs' = out.revs
                /\ sum' = out.sum
                /\ lastBom' = out.lastBom
                /\ lastLink' = out.lastLink
    /\ sIdx' = sIdx + 1
    /\ UNCHANGED <<cvars, rvars, input_vars, catExists, cache, phase, input,
                   mapIdx, groups, wk, sRows, wrote, prev>>

\* the import summary is logged and summarize() returns
summarizeEnd ==
    /\ phase = "summarize"
    /\ sIdx = Len(Assemblies(sRows))
    /\ sum' = [sum EXCEPT !.logged = TRUE]
    /\ phase' = "done"
    /\ RunReleased
    /\ UNCHANGED <<cvars, rvars, input_vars, store_vars, faults, dirty, wrote, prev,
                   lastFailed>>

\* --------------------------------------------------------------------------
\* Between runs: the store is shared with other users of the account, who may
\* take the master default off a BOM line of an assembly
\* --------------------------------------------------------------------------
ClearMasterDefault ==
    /\ phase = "done"
    /\ \E i \in 1..Len(items) : \E l \in 1..Len(items[i].links) :
        /\ items[i].links[l].masterdefault
        /\ items' = [items EXCEPT ![i].links[l].masterdefault = FALSE]
    /\ phase' = "edited"
    /\ UNCHANGED <<cvars, rvars, input_vars, boms, revs, catExists, cache, input,
                   mapIdx, groups, wk, sRows, sIdx, sum, obs_vars>>

Next ==
    \/ getInputData
    \/ map
    \/ StartReduce
    \/ \E w \in Stages : reduceLookup(w)
    \/ \E w \in Stages : reduceCreate(w)
    \/ \E w \in Stages : reduceLocations(w)
    \/ summarizeStart
    \/ summarizeAssembly
    \/ summarizeEnd
    \/ ClearMasterDefault

Spec == PipelineInit /\ [][Next]_vars

\* --------------------------------------------------------------------------
\* Classifier development: inputs and steps
\* --------------------------------------------------------------------------
\* keys with another digit: a second root, a sibling, a root written "N.0"
SiblingKeys ==
    { <<"2">>, <<"1", ".", "2">>, <<"1", ".", "0">> }

\* all keys over the alphabet, 1..MaxKeyLen characters long, and the siblings
ClassifyKeys ==
    UNION { [1..n -> KeyAlphabet] : n \in 1..MaxKeyLen } \cup SiblingKeys

\* the key set of the documentation: 1.0, 1.1, 1.1.1, 1.2
DocKeys ==
    << <<"1", ".", "0">>, <<"1", ".", "1">>,
       <<"1", ".", "1", ".", "1">>, <<"1", ".", "2">> >>

MappedOf(keys) ==
    [ i \in 1..Len(keys) |-> [hierarchy |-> keys[i], itemid |-> "A", quantity |-> 0] ]

ClassifyInputs ==
    { MappedOf(ks) :
        ks \in UNION { [1..n -> ClassifyKeys] : n \in 1..MaxClassifyRows } }
    \cup { MappedOf(DocKeys) }

ClassifyInit ==
    /\ cRows \in ClassifyInputs
    /\ cOut = <<>>
    /\ cDone = FALSE
    /\ PipelineUnused

ClassifyRows ==
    /\ ~cDone
    /\ cOut' = Classify(cRows)
    /\ cDone' = TRUE
    /\ UNCHANGED <<cRows, pvars, rvars>>

SpecClassify == ClassifyInit /\ [][ClassifyRows]_vars

\* --------------------------------------------------------------------------
\* Properties of the classifier (under SpecClassify)
\* --------------------------------------------------------------------------
\* key h is key k, a ".", and a suffix of at least minSuffix characters
Extends(h, k, minSuffix) ==
    /\ Len(h) >= Len(k) + 1 + minSuffix
    /\ \A p \in 1..Len(k) : h[p] = k[p]
    /\ h[Len(k) + 1] = "."

\* the keys of the classified rows
KeysOf(classified) == { classified[i].hierarchy : i \in 1..Len(classified) }

\* rows that share a key share a kind
SameKeySameKind ==
    \A i, j \in 1..Len(cOut) :
        cOut[i].hierarchy = cOut[j].hierarchy => cOut[i].isAssembly = cOut[j].isAssembly

\* a set that holds one key only has no Composite row
NoSelfDescendant ==
    Cardinality(KeysOf(cOut)) = 1 => \A i \in 1..Len(cOut) : ~cOut[i].isAssembly

\* C5 as stated: a row with key K is Composite iff some other key of the set
\* is K, a ".", and a nonempty suffix; Leaf otherwise; rows with the same key
\* get the same kind, and a key is never its own descendant.
C5_CompositeIffNonemptySuffix ==
    cDone =>
        /\ \A i \in 1..Len(cOut) :
              cOut[i].isAssembly <=>
                  \E h \in KeysOf(cOut) : Extends(h, cOut[i].hierarchy, 1)
        /\ SameKeySameKind
        /\ NoSelfDescendant

\* C5 amended: a row with key K is Composite iff some key of the set is K, a
\* ".", and a suffix that may be empty (the key "K." alone makes K Composite);
\* Leaf otherwise; rows with the same key get the same kind, and a key is
\* never its own descendant.
C5_CompositeIffDotExtension ==
    cDone =>
        /\ \A i \in 1..Len(cOut) :
              cOut[i].isAssembly <=>
                  \E h \in KeysOf(cOut) : Extends(h, cOut[i].hierarchy, 0)
        /\ \A i \in 1..Len(cOut) :
              cOut[i].recordType =
                  IF cOut[i].isAssembly THEN "assemblyitem" ELSE "inventoryitem"
        /\ SameKeySameKind
        /\ NoSelfDescendant

\* C5 witness: a classified set in which a row is Composite only because of
\* the key "K." with an empty suffix, beside a Leaf row
C5_Witness ==
    /\ cDone
    /\ \E i, j \in 1..Len(cOut) :
        /\ cOut[j].hierarchy = cOut[i].hierarchy \o <<".">>
        /\ cOut[i].isAssembly
        /\ ~cOut[j].isAssembly
        /\ ~\E h \in KeysOf(cOut) : Extends(h, cOut[i].hierarchy, 1)

\* the classified row with this key (the first one)
RowOf(classified, key) ==
    classified[CHOOSE i \in 1..Len(classified) : classified[i].hierarchy = key]

\* C6 as stated: for the key set {1.0, 1.1, 1.1.1, 1.2} the rows 1.0 and 1.1
\* are Composite and the rows 1.1.1 and 1.2 are Leaf.
C6_DocKeysKinds ==
    (cDone /\ cRows = MappedOf(DocKeys)) =>
        /\ RowOf(cOut, <<"1", ".", "0">>).isAssembly
        /\ RowOf(cOut, <<"1", ".", "1">>).isAssembly
        /\ ~RowOf(cOut, <<"1", ".", "1", ".", "1">>).isAssembly
        /\ ~RowOf(cOut, <<"1", ".", "2">>).isAssembly

\* C7 as stated: parentKey("1.1.1") is "1.1" and parentKey("1.0") is null.
C7_ParentOfRootIsNull ==
    cDone =>
        \A i \in 1..Len(cOut) :
            /\ cOut[i].hierarchy = <<"1", ".", "1", ".", "1">>
                  => cOut[i].parentHierarchy = <<"1", ".", "1">>
            /\ cOut[i].hierarchy = <<"1", ".", "0">>
                  => cOut[i].parentHierarchy = Null

\* --------------------------------------------------------------------------
\* Properties of the pipeline (under Spec)
\* --------------------------------------------------------------------------
\* a run has returned from summarize() with its summary logged, and no store
\* operation failed in it
CleanRunDone == phase = "done" /\ sum.logged /\ ~dirty

\* the run before the current one exists and no store operation failed in it
AfterCleanRun == prev.valid /\ ~prev.dirty

\* C1: when the pipeline is run twice in sequence with no record-store
\* failure, the second run creates no item, location, structure, revision or
\* link record, and the entities after run 2 are those after run 1.
C1_SecondRunAddsNothing ==
    (CleanRunDone /\ AfterCleanRun) =>
        /\ Entities = prev.entities
        /\ sum.bomsCreated = 0
        /\ sum.revisionsCreated = 0

\* C1 witness: a second failure-free run has finished on a store that holds
\* an item with its locations and a link, a structure and a revision
C1_Witness ==
    /\ CleanRunDone /\ AfterCleanRun
    /\ Len(boms) > 0 /\ Len(revs) > 0
    /\ \E i \in 1..Len(items) :
        Len(items[i].locs) = Len(LocationIds) /\ Len(items[i].links) > 0

\* the composite rows of the input that have at least one direct child
CompositesWithChildren ==
    LET mapped == Classify(MappedRows(rows))
    IN  { i \in 1..Len(mapped) :
            /\ mapped[i].isAssembly
            /\ Len(DirectChildren(mapped, mapped[i].hierarchy)) > 0 }

\* the item of row i holds a link to bom bomId with masterdefault set
PreferredLink(itemId, bomId) ==
    \E l \in 1..Len(items[itemId].links) :
        /\ items[itemId].links[l].billofmaterials = bomId
        /\ items[itemId].links[l].masterdefault

\* composite row i has its structure, a revision with one entry per direct
\* child, and a preferred link
Complete(i) ==
    LET mapped == Classify(MappedRows(rows))
        itemId == FindByExternalId(items, ExternalId(ProspectName, mapped[i].itemid))
        bomId  == FindByExternalId(boms,
                      ExternalId(ProspectName, BomName(mapped[i].itemid)))
        revId  == FindByExternalId(revs,
                      ExternalId(ProspectName, RevisionName(mapped[i].itemid)))
    IN  /\ itemId # 0 /\ bomId # 0 /\ revId # 0
        /\ Len(revs[revId].component) =
               Len(DirectChildren(mapped, mapped[i].hierarchy))
        /\ PreferredLink(itemId, bomId)

\* C2 as stated: when a run in which store operations failed is followed by a
\* failure-free run on the same input, every composite row with at least one
\* direct child has its structure, a revision holding one entry per direct
\* child, and a preferred link.
C2_ResumptionCompletes ==
    (CleanRunDone /\ prev.valid /\ prev.dirty) =>
        \A i \in CompositesWithChildren : Complete(i)

\* at most one record of recs per external id
AtMostOne(recs) ==
    \A i, j \in 1..Len(recs) : recs[i].externalid = recs[j].externalid => i = j

\* C4 as stated: in every reachable state the store holds at most one
\* Structure and at most one Revision per ExternalIdentity, also when an
\* identity lookup erred; an existing one is reused, never duplicated.
C4_ExistingAlwaysReused ==
    /\ AtMostOne(boms)
    /\ AtMostOne(revs)
    /\ (lastBom.called /\ lastBom.existed) =>
          ~lastBom.created /\ lastBom.bomId = lastBom.firstId
    /\ (lastBom.revCalled /\ lastBom.revExisted) =>
          ~lastBom.revCreated /\ lastBom.revisionId = lastBom.revFirstId

\* C4 amended: in every reachable state the store holds at most one Structure
\* and at most one Revision per ExternalIdentity, also when an identity lookup
\* erred; a createOrGet call that meets an existing record never duplicates
\* it, and reuses it when its lookup succeeded (after a lookup error the
\* create is attempted and rejected by the store, and nothing is returned).
C4_OneStructureOneRevision ==
    /\ AtMostOne(boms)
    /\ AtMostOne(revs)
    /\ (lastBom.called /\ lastBom.existed) =>
          /\ ~lastBom.created
          /\ IF lastBom.searchError THEN lastBom.bomId = 0
             ELSE lastBom.bomId = lastBom.firstId
    /\ (lastBom.revCalled /\ lastBom.revExisted) =>
          /\ ~lastBom.revCreated
          /\ IF lastBom.revSearchError THEN lastBom.revisionId = 0
             ELSE lastBom.revisionId = lastBom.revFirstId

\* C4 witness: summarize() met an existing structure and an existing revision
\* and reused both
C4_Witness ==
    /\ phase = "summarize"
    /\ lastBom.called /\ lastBom.existed
    /\ lastBom.bomId # 0 /\ lastBom.bomId = lastBom.firstId
    /\ lastBom.revCalled /\ lastBom.revExisted
    /\ lastBom.revisionId # 0 /\ lastBom.revisionId = lastBom.revFirstId

\* the number of lines of the sublist that hold bomId
LinksTo(links, bomId) ==
    Cardinality({ l \in 1..Len(links) : links[l].billofmaterials = bomId })

\* what the last ensureBOMLinkedToAssembly call left: an upgraded link, or
\* the item as it was
LinkUpgraded ==
    /\ PreferredLink(lastLink.asm, lastLink.bom)
    /\ lastLink.linked
    /\ LinksTo(items[lastLink.asm].links, lastLink.bom) =
           LinksTo(lastLink.itemBefore.links, lastLink.bom)
LinkUntouched ==
    /\ items[lastLink.asm] = lastLink.itemBefore
    /\ ~lastLink.linked

AllRowsFinished ==
    /\ sum.inputError \/ Len(input) = Len(MappedRows(rows))
    /\ Len(groups["1_inventory"]) + Len(groups["2_assembly"]) = Len(input)
    /\ \A w \in Stages :
        /\ wk[w].pc = "done"
        /\ wk[w].created + wk[w].skipped + wk[w].failed = Len(groups[w])

\* the number of link lines in the store
LinkCount ==
    Cardinality(UNION { {i} \X (1..Len(items[i].links)) : i \in 1..Len(items) })

\* C10: no step creates a structure, a revision or a link before every
\* Phase 2 row of the run is created, skipped or failed, and every component
\* entry of a Revision refers to an item record of the store.
C10_Phase3AfterPhase2 ==
    /\ [][ (boms' # boms \/ revs' # revs \/ LinkCount' # LinkCount)
              => AllRowsFinished ]_vars
    /\ [](\A r \in 1..Len(revs) : \A c \in 1..Len(revs[r].component) :
              revs[r].component[c].item \in 1..Len(items))

\* C10 witness: summarize() has created a revision with a component while
\* every row of the run is finished
C10_Witness ==
    /\ phase = "summarize"
    /\ AllRowsFinished
    /\ lastBom.revCreated
    /\ Len(revs[lastBom.revisionId].component) > 0

\* --------------------------------------------------------------------------
\* Runs repeated for ever (the claim about convergence speaks of every
\* further run): the pipeline is started again and each started run goes on
\* --------------------------------------------------------------------------
FairSpec == Spec /\ WF_vars(Next)

\* C3 as stated: for every input there is a number of failure-free runs after
\* which every further failure-free run performs no Phase 2 write.
C3_WritesCease ==
    <>[](CleanRunDone => ~wrote)

\* ---------------------------------------------------------------------------
\* Fatal configuration errors
\* ---------------------------------------------------------------------------

\* C11 (as stated): when getInputData aborts with a fatal configuration error
\* (no config parameter, unreadable source file, no data row), the record
\* store is as it was when the run began: no planning category, item or other
\* record was created before the abort.
C11_NoWriteBeforeAbort ==
    phase = "aborted" => Entities = prev.entities

\* C12 (as stated): a run whose configuration has no namespace
\* (config.prospectName missing) aborts in getInputData, so it never reaches the
\* map stage and the store never holds an item whose external id was built
\* from the missing namespace.
C12_MissingNamespaceIsFatal ==
    config = NoNamespace =>
        /\ phase # "map"
        /\ \A i \in 1..Len(items) :
              items[i].externalid \notin { ExternalId("undefined", id) : id \in ItemIds }

\* ---------------------------------------------------------------------------
\* Fail-soft batch
\* ---------------------------------------------------------------------------

\* the rows of its group a reduce() call has finished with
Attempted(w) == wk[w].created + wk[w].skipped + wk[w].failed

\* C13: in a reduce() call a failing row (lookup, create, save or repair) is
\* counted and the call moves on to the next row of its group: while the call
\* is at row idx it has finished with exactly the idx - 1 rows before it, when
\* it has returned it has finished with every row of the group, and the run
\* stays in the reduce stage (nothing is raised out of reduce()).
C13_FailSoftBatch ==
    phase = "reduce" =>
        \A w \in Stages :
            IF wk[w].pc = "done"
            THEN Attempted(w) = Len(groups[w])
            ELSE /\ wk[w].idx \in 1..Len(groups[w])
                 /\ Attempted(w) = wk[w].idx - 1

\* the first row of a group failed and the item of its second row is saved
C13_Witness ==
    /\ phase = "reduce"
    /\ \E w \in Stages :
          /\ wk[w].failed = 1 /\ wk[w].idx = 2 /\ wk[w].pc = "locs"
          /\ items[wk[w].itemId].externalid =
                ExternalId(groups[w][2].prospectName, groups[w][2].itemid)

\* ---------------------------------------------------------------------------
\* The end-of-run summary
\* ---------------------------------------------------------------------------

\* C14 (as stated): whenever summarize() has run, whatever failed inside it,
\* it has logged the end-of-run summary (the counts and the stage errors)
\* before it returned.
C14_SummaryAlwaysLogged ==
    phase = "done" => sum.logged

\* ---------------------------------------------------------------------------
\* The cache and its fallback
\* ---------------------------------------------------------------------------

\* the fields of a row summarize() reads
Phase3View(rs) ==
    [ i \in 1..Len(rs) |->
        [ hierarchy       |-> rs[i].hierarchy,
          itemid          |-> rs[i].itemid,
          isAssembly      |-> rs[i].isAssembly,
          parentHierarchy |-> rs[i].parentHierarchy,
          quantity        |-> rs[i].quantity ] ]

\* C15 (as stated): the rows re-derived from the source file agree with the
\* rows getInputData staged in the cache on every field summarize() reads
\* (hierarchy, itemid, isAssembly, parentHierarchy, quantity), for every input.
C15_FallbackAgreesWithCache ==
    cache.hit => Phase3View(reParseCSVForSummarize(rows)) = Phase3View(cache.rows)

\* ---------------------------------------------------------------------------
\* Two executions of the script and the cache they share (under SpecCache)
\* ---------------------------------------------------------------------------
Runs == {1, 2}

\* the CSV contents the two executions are given
RunInputs == ConfigInputs \cup {InfiniteQuantityInput}

CacheInit ==
    /\ runs \in { f \in [Runs -> [rows : RunInputs, pc : {"start"}, read : {<<>>}]] :
                    f[1].rows # f[2].rows }
    /\ cache = [hit |-> FALSE, rows |-> <<>>]
    /\ rows = <<>> /\ setupMRP = FALSE /\ config = OkConfig
    /\ items = <<>> /\ boms = <<>> /\ revs = <<>> /\ catExists = FALSE
    /\ phase = "off" /\ input = <<>> /\ mapIdx = 0
    /\ groups = <<>> /\ wk = <<>> /\ sRows = <<>> /\ sIdx = 0 /\ sum = <<>>
    /\ faults = 0 /\ dirty = FALSE /\ wrote = FALSE /\ prev = <<>>
    /\ lastBom = <<>> /\ lastLink = <<>> /\ lastFailed = {}
    /\ cRows = <<>> /\ cOut = <<>> /\ cDone = TRUE
    /\ ident = <<>> /\ parse = <<>>

\* getInputData of execution r: importCache.put under the key 'ALL_ROWS' of the
\* cache 'BOM_IMPORT_CACHE'
importCachePut(r) ==
    /\ runs[r].pc = "start"
    /\ cache' = [hit |-> TRUE, rows |-> JsonRoundTrip(Classify(MappedRows(runs[r].rows)))]
    /\ runs' = [runs EXCEPT ![r].pc = "staged"]
    /\ UNCHANGED <<cvars, input_vars, items, boms, revs, catExists, exec_vars, obs_vars,
                   ident, parse>>

\* summarize of execution r: importCache.get of 'ALL_ROWS', and its own CSV
\* when there is no entry
importCacheGet(r) ==
    /\ runs[r].pc = "staged"
    /\ runs' = [runs EXCEPT ![r].pc = "read",
                            ![r].read = IF cache.hit THEN cache.rows
                                        ELSE reParseCSVForSummarize(runs[r].rows)]
    /\ UNCHANGED <<cvars, pvars, ident, parse>>

\* the entry passes its ttl or is evicted
cacheEntryExpires ==
    /\ cache.hit
    /\ cache' = [hit |-> FALSE, rows |-> <<>>]
    /\ UNCHANGED <<cvars, input_vars, items, boms, revs, catExists, exec_vars, obs_vars,
                   rvars>>

CacheNext ==
    \/ \E r \in Runs : importCachePut(r)
    \/ \E r \in Runs : importCacheGet(r)
    \/ cacheEntryExpires

SpecCache == CacheInit /\ [][CacheNext]_vars

\* C16 (as stated): of two executions with different inputs, interleaved in
\* any order, each one's summarize() works on the rows its own getInputData
\* staged, or on the rows re-derived from its own CSV, never on the rows of
\* the other execution.
C16_ReadsOwnRows ==
    \A r \in Runs :
        runs[r].pc = "read" =>
            \/ runs[r].read = JsonRoundTrip(Classify(MappedRows(runs[r].rows)))
            \/ runs[r].read = reParseCSVForSummarize(runs[r].rows)

\* ---------------------------------------------------------------------------
\* Composites without components
\* ---------------------------------------------------------------------------

\* the step of summarize() that handles the next composite row
HandlesNextAssembly == phase = "summarize" /\ sIdx' = sIdx + 1
NextAssembly == Assemblies(sRows)[sIdx + 1]
\* the rows of the data one level below a composite row
ChildRows(row) ==
    SelectSeq(sRows, LAMBDA r : ParentHierarchy(r.hierarchy) = row.hierarchy)
NextChildren == ChildRows(NextAssembly)
InStore(row) == FindByExternalId(items, ExternalId(ProspectName, row.itemid)) # 0

\* a composite with direct child rows none of which has an item in the store
\* gets no structure and is counted as one failure
NoComponentIsFailure ==
    ( /\ Len(NextChildren) >= 1
      /\ \A k \in 1..Len(NextChildren) : ~InStore(NextChildren[k]) )
    => /\ boms' = boms
       /\ sum'.bomsFailed = sum.bomsFailed + 1

\* C17 (as stated): a composite with direct child rows none of which resolves
\* gets no structure and one failure; a composite with no direct child row in
\* the data gets no structure and no failure.
C17_NoChildRowIsNeverFailure ==
    [][ HandlesNextAssembly =>
          /\ NoComponentIsFailure
          /\ Len(NextChildren) = 0 =>
                /\ boms' = boms
                /\ sum'.bomsFailed = sum.bomsFailed ]_vars

\* C17 (amended): ... a composite with no direct child row in the data gets no
\* structure; it gets no failure when its own item is found, and one failure
\* when its own item is not in the store or the lookup of it fails.
C17_NoChildRowSkippedWhenFound ==
    [][ HandlesNextAssembly =>
          /\ NoComponentIsFailure
          /\ Len(NextChildren) = 0 =>
                /\ boms' = boms
                /\ sum'.bomsFailed =
                      IF InStore(NextAssembly) /\ faults' = faults
                      THEN sum.bomsFailed ELSE sum.bomsFailed + 1 ]_vars

\* summarize() has passed a composite without direct child rows whose item is
\* in the store, and has counted no failure
C17_Witness ==
    /\ phase = "summarize" /\ sIdx = 1
    /\ Len(ChildRows(Assemblies(sRows)[1])) = 0
    /\ InStore(Assemblies(sRows)[1])
    /\ sum.bomsFailed = 0
    /\ Len(boms) = 0

\* ---------------------------------------------------------------------------
\* External ids as a function (under SpecIdentity)
\* ---------------------------------------------------------------------------
Roles == {"item", "bom", "bomrevision"}

\* itemids, two of them ending like the names of a structure and a revision
IdentityItemIds == {"A", "B", "A_BOM", "A_REV_A"}

\* the external id the script computes for the record of a role: reduce and
\* createItem for items, createOrGetBOM, createOrGetBOMRevision
ExternalIdentity(prospectName, itemid, role) ==
    IF role = "item" THEN ExternalId(prospectName, itemid)
    ELSE IF role = "bom" THEN ExternalId(prospectName, BomName(itemid))
    ELSE ExternalId(prospectName, RevisionName(itemid))

IdentityInit ==
    /\ ident \in [ first  : [itemid : IdentityItemIds, role : Roles],
                   second : [itemid : IdentityItemIds, role : Roles],
                   out    : {<<>>} ]
    /\ runs = <<>> /\ parse = <<>>
    /\ config = OkConfig
    /\ rows = <<>> /\ setupMRP = FALSE
    /\ items = <<>> /\ boms = <<>> /\ revs = <<>> /\ catExists = FALSE
    /\ cache = <<>>
    /\ phase = "off" /\ input = <<>> /\ mapIdx = 0
    /\ groups = <<>> /\ wk = <<>> /\ sRows = <<>> /\ sIdx = 0 /\ sum = <<>>
    /\ faults = 0 /\ dirty = FALSE /\ wrote = FALSE /\ prev = <<>>
    /\ lastBom = <<>> /\ lastLink = <<>> /\ lastFailed = {}
    /\ cRows = <<>> /\ cOut = <<>> /\ cDone = TRUE

computeExternalIds ==
    /\ ident.out = <<>>
    /\ ident' = [ident EXCEPT !.out =
                    << ExternalIdentity(ProspectName, ident.first.itemid, ident.first.role),
                       ExternalIdentity(ProspectName, ident.second.itemid, ident.second.role) >>]
    /\ UNCHANGED <<cvars, pvars, runs, parse>>

SpecIdentity == IdentityInit /\ [][computeExternalIds]_vars

\* C18 (as stated): under one namespace two different itemids never yield the
\* same external id, whichever of the item, structure and revision roles the
\* two ids are computed for.
C18_DistinctIdsNeverCollide ==
    (ident.out # <<>> /\ ident.first.itemid # ident.second.itemid)
        => ident.out[1] # ident.out[2]

\* C18 (amended): under one namespace two different itemids never yield the
\* same external id within one role, and equal (itemid, role) pairs yield
\* equal ids.
C18_DistinctIdsDifferWithinRole ==
    ident.out # <<>> =>
        /\ (ident.first.role = ident.second.role
              /\ ident.first.itemid # ident.second.itemid)
               => ident.out[1] # ident.out[2]
        /\ ident.first = ident.second => ident.out[1] = ident.out[2]

\* the external ids of the structures of "A" and of "A_BOM" are computed
C18_Witness ==
    /\ ident.out # <<>>
    /\ ident.first = [itemid |-> "A", role |-> "bom"]
    /\ ident.second = [itemid |-> "A_BOM", role |-> "bom"]
    /\ ident.out = <<"P_A_BOM", "P_A_BOM_BOM">>

\* ---------------------------------------------------------------------------
\* Two reduce() calls and one external id
\* ---------------------------------------------------------------------------

\* the CSV has a composite row and a leaf row with the same itemid
SameItemidInBothGroups ==
    /\ Len(MappedRows(rows)) = 2
    /\ MappedRows(rows)[1].itemid = MappedRows(rows)[2].itemid
    /\ Classify(MappedRows(rows))[1].isAssembly # Classify(MappedRows(rows))[2].isAssembly

\* the items of the store with the external id of itemid
ItemsOf(itemid) ==
    { i \in 1..Len(items) : items[i].externalid = ExternalId(ProspectName, itemid) }

\* a row counter added up over the reduce() calls
Total(counter) ==
    wk["1_inventory"][counter] + wk["2_assembly"][counter]

\* C19: when the inventory and the assembly reduce() calls each hold a row
\* with the same itemid, then however their lookup and create steps
\* interleave the store never holds two items with that external id; a create
\* that finds the id taken leaves the store as it is and counts one failed
\* row; and once both calls have returned in a first run without injected
\* failures there is exactly one such item, one row counted created and the
\* other counted failed or skipped, and summarize() can start.
C19_RaceLeavesOneItem ==
    /\ [](SameItemidInBothGroups =>
            /\ Cardinality(ItemsOf(MappedRows(rows)[1].itemid)) <= 1
            /\ (phase = "reduce" /\ ReduceComplete /\ faults = 0 /\ ~prev.valid)
                  => /\ Cardinality(ItemsOf(MappedRows(rows)[1].itemid)) = 1
                     /\ Total("created") = 1
                     /\ Total("failed") + Total("skipped") = 1
                     /\ ENABLED summarizeStart)
    /\ [][ \A w \in Stages :
             ( /\ SameItemidInBothGroups
               /\ phase = "reduce" /\ wk[w].pc = "create" /\ wk'[w] # wk[w]
               /\ ItemsOf(MappedRows(rows)[1].itemid) # {} )
             => /\ items' = items
                /\ wk'[w].failed = wk[w].failed + 1
                /\ phase' = "reduce" ]_vars

\* both calls looked the id up before either saved; one create was rejected
\* and its row counted failed
C19_Witness ==
    /\ SameItemidInBothGroups
    /\ phase = "reduce" /\ ReduceComplete /\ faults = 0 /\ ~prev.valid
    /\ Total("failed") = 1 /\ Total("created") = 1
    /\ Cardinality(ItemsOf(MappedRows(rows)[1].itemid)) = 1

\* ---------------------------------------------------------------------------
\* The create path of reduce()
\* ---------------------------------------------------------------------------

\* C20 (as stated): on the create path a row is counted failed exactly when
\* saving the item record fails; the failure of a single field set (here the
\* tax schedule default or the replenishment method) neither ends the row nor
\* counts it failed.
C20_FailedIffSaveFails ==
    [][ \A w \in Stages :
          (phase = "reduce" /\ wk[w].pc = "create" /\ wk'[w] # wk[w])
          => ( wk'[w].failed = wk[w].failed + 1 <=> wk'[w].threw = "save" ) ]_vars

\* ---------------------------------------------------------------------------
\* Item lookups that throw
\* ---------------------------------------------------------------------------

\* the item lookups of summarize() that failed in the step just taken
AssemblyFound == InStore(NextAssembly) /\ <<"asm", 0>> \notin lastFailed'
ChildResolved(k) == InStore(NextChildren[k]) /\ <<"child", k>> \notin lastFailed'
ItemLookupFailed ==
    \/ <<"asm", 0>> \in lastFailed'
    \/ \E k \in 1..Len(NextChildren) : <<"child", k>> \in lastFailed'

\* a reduce() step in which findItemByExternalId threw: the row goes on to
\* createItem and no counter moves
LookupErrorGoesToCreate ==
    \A w \in Stages :
        ( /\ phase = "reduce" /\ wk[w].pc = "lookup" /\ wk'[w] # wk[w]
          /\ <<"lookup", 0>> \in lastFailed' )
        => /\ wk'[w] = [wk[w] EXCEPT !.pc = "create"]
           /\ items' = items

\* C21 (as stated): an item lookup that throws is treated as not-found and
\* counts nothing as failed: in reduce() the row goes on to the create path,
\* and in summarize() a throwing lookup of the composite's item or of a
\* child's item increments no failure count.
C21_LookupErrorNeverCounts ==
    [][ /\ LookupErrorGoesToCreate
        /\ (HandlesNextAssembly /\ ItemLookupFailed)
              => /\ sum'.bomsFailed = sum.bomsFailed
                 /\ sum'.revisionsFailed = sum.revisionsFailed ]_vars

\* C21 (amended): an item lookup that throws is treated as not-found. In
\* reduce() the row goes on to the create path. In summarize() a composite
\* whose own lookup threw is handled as "assembly not found": one structure
\* failure, nothing written; a child whose lookup threw is left out of the
\* components, and the composite counts one structure failure when none of
\* its child rows resolves.
C21_LookupErrorIsNotFound ==
    [][ /\ LookupErrorGoesToCreate
        /\ (HandlesNextAssembly /\ ItemLookupFailed)
              => IF ~AssemblyFound
                 THEN /\ sum'.bomsFailed = sum.bomsFailed + 1
                      /\ <<items', boms', revs'>> = <<items, boms, revs>>
                 ELSE (Len(NextChildren) >= 1
                         /\ \A k \in 1..Len(NextChildren) : ~ChildResolved(k))
                      => /\ sum'.bomsFailed = sum.bomsFailed + 1
                         /\ <<items', boms', revs'>> = <<items, boms, revs>> ]_vars

\* summarize() has passed a composite whose item is in the store but whose
\* lookup threw, and has counted it as a structure failure
C21_Witness ==
    /\ phase = "summarize" /\ sIdx >= 1
    /\ <<"asm", 0>> \in lastFailed
    /\ InStore(Assemblies(sRows)[sIdx])
    /\ sum.bomsFailed = 1
    /\ Len(boms) = 0

\* ---------------------------------------------------------------------------
\* The tokenizer (under SpecParse)
\* ---------------------------------------------------------------------------
MaxLineLen == 4

\* a letter, the two separators, the quote, carriage return and blank
LineAlphabet == {"a", ",", "\t", "\"", "\r", " "}

\* the variant of parseRowFrom that does not step over the second quote of a
\* doubled quote
RECURSIVE parseRowFromNoSkip(_, _, _, _, _)
parseRowFromNoSkip(rowText, i, values, current, inQuotes) ==
    IF i > Len(rowText) THEN Append(values, current)
    ELSE LET char == rowText[i]
             nextChar == IF i < Len(rowText) THEN rowText[i + 1] ELSE ""
         IN  IF char = "\""
             THEN IF inQuotes /\ nextChar = "\""
                  THEN parseRowFromNoSkip(rowText, i + 1, values,
                                          Append(current, "\""), inQuotes)
                  ELSE parseRowFromNoSkip(rowText, i + 1, values, current, ~inQuotes)
             ELSE IF (char = "," \/ char = "\t") /\ ~inQuotes
             THEN parseRowFromNoSkip(rowText, i + 1, Append(values, current), <<>>,
                                     inQuotes)
             ELSE IF char # "\r"
             THEN parseRowFromNoSkip(rowText, i + 1, values, Append(current, char),
                                     inQuotes)
             ELSE parseRowFromNoSkip(rowText, i + 1, values, current, inQuotes)

\* the variant of parseRowFrom that cuts at a separator inside a span too
RECURSIVE parseRowFromCutsInSpan(_, _, _, _, _)
parseRowFromCutsInSpan(rowText, i, values, current, inQuotes) ==
    IF i > Len(rowText) THEN Append(values, current)
    ELSE LET char == rowText[i]
             nextChar == IF i < Len(rowText) THEN rowText[i + 1] ELSE ""
         IN  IF char = "\""
             THEN IF inQuotes /\ nextChar = "\""
                  THEN parseRowFromCutsInSpan(rowText, i + 2, values,
                                              Append(current, "\""), inQuotes)
                  ELSE parseRowFromCutsInSpan(rowText, i + 1, values, current,
                                              ~inQuotes)
             ELSE IF char = "," \/ char = "\t"
             THEN parseRowFromCutsInSpan(rowText, i + 1, Append(values, current),
                                         <<>>, inQuotes)
             ELSE IF char # "\r"
             THEN parseRowFromCutsInSpan(rowText, i + 1, values,
                                         Append(current, char), inQuotes)
             ELSE parseRowFromCutsInSpan(rowText, i + 1, values, current, inQuotes)

\* the loop of parseRow from position i on, with its locals
RECURSIVE parseRowFrom(_, _, _, _, _)
parseRowFrom(rowText, i, values, current, inQuotes) ==
    IF i > Len(rowText) THEN Append(values, current)
    ELSE LET char == rowText[i]
             nextChar == IF i < Len(rowText) THEN rowText[i + 1] ELSE ""
         IN  IF char = "\""
             THEN IF inQuotes /\ nextChar = "\""
                  THEN parseRowFrom(rowText, i + 2, values, Append(current, "\""),
                                    inQuotes)
                  ELSE parseRowFrom(rowText, i + 1, values, current, ~inQuotes)
             ELSE IF (char = "," \/ char = "\t") /\ ~inQuotes
             THEN parseRowFrom(rowText, i + 1, Append(values, current), <<>>, inQuotes)
             ELSE IF char # "\r"
             THEN parseRowFrom(rowText, i + 1, values, Append(current, char), inQuotes)
             ELSE parseRowFrom(rowText, i + 1, values, current, inQuotes)

parseRow(rowText) == parseRowFrom(rowText, 1, <<>>, <<>>, FALSE)

\* a line of the file passes filter(line => line.trim()), and its cells are
\* pushed to allRows when some cell is not blank
EmitsRow(line) ==
    /\ Trim(line) # <<>>
    /\ \E c \in 1..Len(parseRow(line)) : Trim(parseRow(line)[c]) # <<>>

\* the variant of slParseRowFrom that pushes no empty field
RECURSIVE slParseRowFromDropsEmpty(_, _, _, _, _)
slParseRowFromDropsEmpty(rowText, i, values, current, inQuotes) ==
    LET pushed == IF Trim(current) = <<>> THEN values
                  ELSE Append(values, Trim(current))
    IN  IF i > Len(rowText) THEN Append(values, Trim(current))
        ELSE LET char == rowText[i]
                 nextChar == IF i < Len(rowText) THEN rowText[i + 1] ELSE ""
             IN  IF char = "\""
                 THEN IF inQuotes /\ nextChar = "\""
                      THEN slParseRowFromDropsEmpty(rowText, i + 2, values,
                                                    Append(current, "\""), inQuotes)
                      ELSE slParseRowFromDropsEmpty(rowText, i + 1, values, current,
                                                    ~inQuotes)
                 ELSE IF (char = "," \/ char = "\t") /\ ~inQuotes
                 THEN slParseRowFromDropsEmpty(rowText, i + 1, pushed, <<>>, inQuotes)
                 ELSE IF char # "\r"
                 THEN slParseRowFromDropsEmpty(rowText, i + 1, values,
                                               Append(current, char), inQuotes)
                 ELSE slParseRowFromDropsEmpty(rowText, i + 1, values, current,
                                               inQuotes)

\* the loop of the upload form's parseRow from position i on: as the
\* pipeline's, but each field is trimmed when it is pushed
RECURSIVE slParseRowFrom(_, _, _, _, _)
slParseRowFrom(rowText, i, values, current, inQuotes) ==
    IF i > Len(rowText) THEN Append(values, Trim(current))
    ELSE LET char == rowText[i]
             nextChar == IF i < Len(rowText) THEN rowText[i + 1] ELSE ""
         IN  IF char = "\""
             THEN IF inQuotes /\ nextChar = "\""
                  THEN slParseRowFrom(rowText, i + 2, values, Append(current, "\""),
                                      inQuotes)
                  ELSE slParseRowFrom(rowText, i + 1, values, current, ~inQuotes)
             ELSE IF (char = "," \/ char = "\t") /\ ~inQuotes
             THEN slParseRowFrom(rowText, i + 1, Append(values, Trim(current)), <<>>,
                                 inQuotes)
             ELSE IF char # "\r"
             THEN slParseRowFrom(rowText, i + 1, values, Append(current, char),
                                 inQuotes)
             ELSE slParseRowFrom(rowText, i + 1, values, current, inQuotes)

slParseRow(rowText) == slParseRowFrom(rowText, 1, <<>>, <<>>, FALSE)

\* parseCSV of the upload form keeps a line that passes
\* filter(line => line.trim()) when some cell of it is not blank
slEmitsRow(line) ==
    /\ Trim(line) # <<>>
    /\ \E c \in 1..Len(slParseRow(line)) : Trim(slParseRow(line)[c]) # <<>>

RECURSIVE LinesUpTo(_)
LinesUpTo(n) ==
    IF n = 0 THEN {<<>>}
    ELSE LinesUpTo(n - 1)
         \cup { Append(l, ch) : l \in { m \in LinesUpTo(n - 1) : Len(m) = n - 1 },
                                ch \in LineAlphabet }

\* a,"b,c",d and a,"b""c",d
QuotedCommaLine == <<"a", ",", "\"", "b", ",", "c", "\"", ",", "d">>
DoubledQuoteLine == <<"a", ",", "\"", "b", "\"", "\"", "c", "\"", ",", "d">>

ParseLines == LinesUpTo(MaxLineLen) \cup {QuotedCommaLine, DoubledQuoteLine}

ParseInit ==
    /\ parse \in [ line : ParseLines, cells : {<<>>}, row : {FALSE}, done : {FALSE},
                    preview : {<<>>}, listed : {FALSE}, shown : {FALSE} ]
    /\ runs = <<>> /\ ident = <<>>
    /\ config = OkConfig
    /\ rows = <<>> /\ setupMRP = FALSE
    /\ items = <<>> /\ boms = <<>> /\ revs = <<>> /\ catExists = FALSE
    /\ cache = <<>>
    /\ phase = "off" /\ input = <<>> /\ mapIdx = 0
    /\ groups = <<>> /\ wk = <<>> /\ sRows = <<>> /\ sIdx = 0 /\ sum = <<>>
    /\ faults = 0 /\ dirty = FALSE /\ wrote = FALSE /\ prev = <<>>
    /\ lastBom = <<>> /\ lastLink = <<>> /\ lastFailed = {}
    /\ cRows = <<>> /\ cOut = <<>> /\ cDone = TRUE

parseLine ==
    /\ ~parse.done
    /\ parse' = [ parse EXCEPT !.cells = parseRow(parse.line),
                               !.row   = EmitsRow(parse.line),
                               !.done  = TRUE ]
    /\ UNCHANGED <<cvars, pvars, runs, ident>>

\* the upload form parses the same line of the file for its preview
previewLine ==
    /\ ~parse.shown
    /\ parse' = [ parse EXCEPT !.preview = slParseRow(parse.line),
                               !.listed  = slEmitsRow(parse.line),
                               !.shown   = TRUE ]
    /\ UNCHANGED <<cvars, pvars, runs, ident>>

SpecParse == ParseInit /\ [][parseLine \/ previewLine]_vars

\* what each character of a line is to the tokenizer: a separator, a quote
\* that opens or closes a span, the two quotes of a doubled quote inside a
\* span (the first read as a literal quote), a carriage return, or text
RECURSIVE RolesFrom(_, _, _)
RolesFrom(text, i, inSpan) ==
    IF i > Len(text) THEN <<>>
    ELSE IF text[i] = "\"" /\ inSpan /\ i < Len(text) /\ text[i + 1] = "\""
    THEN <<"literal", "second">> \o RolesFrom(text, i + 2, inSpan)
    ELSE IF text[i] = "\"" THEN <<"delimiter">> \o RolesFrom(text, i + 1, ~inSpan)
    ELSE IF text[i] \in {",", "\t"} /\ ~inSpan
    THEN <<"separator">> \o RolesFrom(text, i + 1, inSpan)
    ELSE IF text[i] = "\r" THEN <<"return">> \o RolesFrom(text, i + 1, inSpan)
    ELSE <<"text">> \o RolesFrom(text, i + 1, inSpan)

\* the fields of the first n characters: a new field after each separator,
\* text and literal quotes kept, everything else left out
RECURSIVE FieldsOf(_, _, _)
FieldsOf(text, roles, n) ==
    IF n = 0 THEN << <<>> >>
    ELSE LET before == FieldsOf(text, roles, n - 1)
         IN  IF roles[n] = "separator" THEN Append(before, <<>>)
             ELSE IF roles[n] \in {"text", "literal"}
             THEN [before EXCEPT ![Len(before)] = Append(@, text[n])]
             ELSE before

\* C22: parseRow splits a line at each comma or tab outside a double-quote
\* span, reads a doubled quote inside a span as one literal quote, and keeps
\* neither the quote delimiters nor carriage returns in a field; a
\* whitespace-only line gives no row; a,"b,c",d gives a | b,c | d and
\* a,"b""c",d gives a | b"c | d.
C22_Tokenizer ==
    parse.done =>
        /\ parse.cells = FieldsOf(parse.line, RolesFrom(parse.line, 1, FALSE),
                                  Len(parse.line))
        /\ \A c \in 1..Len(parse.cells) : \A p \in 1..Len(parse.cells[c]) :
              parse.cells[c][p] # "\r"
        /\ (\A p \in 1..Len(parse.line) : parse.line[p] \in Whitespace) => ~parse.row
        /\ parse.line = QuotedCommaLine
              => parse.cells = << <<"a">>, <<"b", ",", "c">>, <<"d">> >>
        /\ parse.line = DoubledQuoteLine
              => parse.cells = << <<"a">>, <<"b", "\"", "c">>, <<"d">> >>

\* the line a,"b""c",d has been tokenized
C22_Witness ==
    /\ parse.done
    /\ parse.line = DoubledQuoteLine
    /\ Len(parse.cells) = 3
    /\ parse.row

\* ---------------------------------------------------------------------------
\* Rows without a hierarchy or an itemid
\* ---------------------------------------------------------------------------

\* the cell is empty or holds whitespace only
BlankKey(cell) == \A p \in 1..Len(cell) : cell[p] \in Whitespace
BlankId(cell) == cell \in {"", " "}

\* the data rows of the CSV whose hierarchy and itemid cells are both not
\* blank, in file order
KeptIndices ==
    SelectSeq(Indices(Len(rows)),
              LAMBDA i : ~BlankKey(rows[i].hierarchy) /\ ~BlankId(rows[i].itemid))
KeptItemids == { TrimId(rows[KeptIndices[j]].itemid) : j \in 1..Len(KeptIndices) }

\* C23: the rows getInputData hands on are exactly the data rows whose
\* hierarchy cell and itemid cell are both not blank; a discarded row raises
\* no error (getInputData aborts only for the configuration or an unreadable
\* file), no record carries its identity, and its hierarchy takes no part in
\* deciding whether another row is an assembly.
C23_BlankRowsDiscarded ==
    /\ (phase \in {"map", "reduce"}) =>
          /\ Len(input) = Len(KeptIndices)
          /\ \A j \in 1..Len(input) :
                /\ input[j].hierarchy = Trim(rows[KeptIndices[j]].hierarchy)
                /\ input[j].itemid = TrimId(rows[KeptIndices[j]].itemid)
                /\ input[j].isAssembly <=>
                      \E t \in 1..Len(input) :
                          /\ input[t].hierarchy # input[j].hierarchy
                          /\ StartsWith(input[t].hierarchy,
                                        input[j].hierarchy \o <<".">>)
    /\ (phase = "aborted" /\ config = OkConfig) => <<"csv", 0>> \in lastFailed
    /\ \A i \in 1..Len(items) :
          items[i].externalid \in { ExternalId(ProspectName, id) : id \in KeptItemids }
    /\ \A b \in 1..Len(boms) :
          boms[b].externalid \in
              { ExternalId(ProspectName, BomName(id)) : id \in KeptItemids }

\* the row 1.1 has a blank itemid: it is discarded, and the item of row 1 is
\* created as an inventory item
C23_Witness ==
    /\ Len(rows) = 2 /\ BlankId(rows[2].itemid)
    /\ rows[2].hierarchy = <<"1", ".", "1">>
    /\ phase = "reduce" /\ Len(input) = 1
    /\ Len(items) = 1 /\ items[1].type = "inventoryitem"

\* ---------------------------------------------------------------------------
\* Quantities
\* ---------------------------------------------------------------------------

\* C24 (as stated): the quantity of every mapped row, read as summarize()
\* reads it (1 when the row has none), is greater than 0, and so is every
\* component quantity written into a revision, whatever the quantity cells
\* hold (negative cells included).
C24_QuantitiesPositive ==
    /\ \A j \in 1..Len(input) : QuantityOr1(input[j]) > 0
    /\ \A r \in 1..Len(revs) : \A c \in 1..Len(revs[r].component) :
          revs[r].component[c].bomquantity > 0

\* ---------------------------------------------------------------------------
\* Parent keys (under SpecClassify)
\* ---------------------------------------------------------------------------

\* the positions of the dots of a key
Dots(key) == { p \in 1..Len(key) : key[p] = "." }

\* the key up to its last dot, the dot left out
WithoutLastSegment(key) ==
    SubSeq(key, 1, (CHOOSE p \in Dots(key) : \A q \in Dots(key) : q <= p) - 1)

ItemOf(id) == FindByExternalId(items, ExternalId(ProspectName, id))

\* C26 as stated: after a failure-free run over the rows keyed 1.0, 1.1, 1.2
\* and 1.3 the item of row 1.0 is an assembly and has a structure whose
\* revision lists the items of the rows 1.1, 1.2 and 1.3 as components.
C26_DottedZeroRootHasChildren ==
    (CleanRunDone /\ rows = DocNotationInput) =>
        LET bomId == FindByExternalId(boms, ExternalId(ProspectName, BomName("A")))
            revId == FindByExternalId(revs, ExternalId(ProspectName, RevisionName("A")))
        IN  /\ ItemOf("A") # 0 /\ bomId # 0 /\ revId # 0
            /\ items[ItemOf("A")].type = "assemblyitem"
            /\ revs[revId].billofmaterials = bomId
            /\ { revs[revId].component[c].item : c \in 1..Len(revs[revId].component) }
                  = { ItemOf("B"), ItemOf("C"), ItemOf("D") }

\* ---------------------------------------------------------------------------
\* The components of a new revision (under Spec)
\* ---------------------------------------------------------------------------

\* the direct child rows of the next composite whose item lookup answered
ResolvedChildren ==
    SelectSeq(Indices(Len(NextChildren)), LAMBDA k : ChildResolved(k))

\* one entry per resolved direct child row, in row order, with the row's
\* quantity, or 1 when the row has none
EntriesOfResolvedChildren ==
    [ j \in 1..Len(ResolvedChildren) |->
        LET child == NextChildren[ResolvedChildren[j]]
        IN  [ item        |-> ItemOf(child.itemid),
              bomquantity |-> IF child.quantity = 0 THEN 1 ELSE child.quantity ] ]

\* the step of summarize() in which a revision is created
CreatesRevision == HandlesNextAssembly /\ Len(revs') = Len(revs) + 1

\* C27 as stated: a revision that summarize() creates for a composite row
\* holds exactly one component entry per direct child row whose identity
\* resolved, in row order, with the child row's quantity or 1, and no entry
\* for any other row.
C27_RevisionListsResolvedChildren ==
    [][ CreatesRevision =>
          revs'[Len(revs')].component = EntriesOfResolvedChildren ]_vars

\* ---------------------------------------------------------------------------
\* An existing revision (under Spec)
\* ---------------------------------------------------------------------------

\* the revision of a composite row in the store, 0 when there is none
RevisionOf(row) ==
    FindByExternalId(revs, ExternalId(ProspectName, RevisionName(row.itemid)))

\* summarize() handles a composite row whose revision is in the store
HandlesExistingRevision == HandlesNextAssembly /\ RevisionOf(NextAssembly) # 0

\* C28 (as stated): when a revision with the composite's revision identity
\* exists, summarize() leaves it unchanged and counts it neither as created
\* nor as failed.
C28_ExistingRevisionNeverCounted ==
    [][ HandlesExistingRevision =>
          /\ revs' = revs
          /\ sum'.revisionsCreated = sum.revisionsCreated
          /\ sum'.revisionsFailed = sum.revisionsFailed ]_vars

\* C28 (amended): when a revision with the composite's revision identity
\* exists, summarize() leaves it and every other revision unchanged and does
\* not count it as created; it does not count it as failed either, unless the
\* search for the revision throws, in which case the save of a second revision
\* is refused and one revision failure is counted.
C28_ExistingRevisionUntouched ==
    [][ HandlesExistingRevision =>
          /\ revs' = revs
          /\ sum'.revisionsCreated = sum.revisionsCreated
          /\ sum'.revisionsFailed =
                IF <<"revsearch", 0>> \in lastFailed'
                THEN sum.revisionsFailed + 1 ELSE sum.revisionsFailed ]_vars

\* summarize() of a second, failure-free run has handled a composite whose
\* revision holds no component although its child row has an item: nothing
\* was created or counted as failed
C28_Witness ==
    /\ phase = "summarize" /\ sIdx = 1 /\ prev.valid /\ ~dirty
    /\ RevisionOf(Assemblies(sRows)[1]) # 0
    /\ Len(revs[RevisionOf(Assemblies(sRows)[1])].component) = 0
    /\ \E k \in 1..Len(ChildRows(Assemblies(sRows)[1])) :
          InStore(ChildRows(Assemblies(sRows)[1])[k])
    /\ sum.bomsFailed = 0
    /\ sum.revisionsCreated = 0
    /\ sum.revisionsFailed = 0

\* ---------------------------------------------------------------------------
\* A composite whose item does not resolve (under Spec)
\* ---------------------------------------------------------------------------

\* the structure of a composite row in the store, 0 when there is none
BomOf(row) ==
    FindByExternalId(boms, ExternalId(ProspectName, BomName(row.itemid)))

\* the step of summarize() for a composite whose item lookup answers nothing:
\* no record is written and the structure failure count goes up by one
UnresolvedCompositeFails ==
    (HandlesNextAssembly /\ ~AssemblyFound)
    => /\ boms' = boms /\ revs' = revs /\ items' = items
       /\ sum' = [sum EXCEPT !.bomsFailed = @ + 1]
       /\ phase' = "summarize"

\* the loop of summarize() passes from each composite row to the next, and
\* the summary is logged after the last
EveryCompositeHandled ==
    /\ (phase = "summarize" /\ phase' = "summarize") => sIdx' = sIdx + 1
    /\ (phase = "summarize" /\ sum'.logged) => sIdx = Len(Assemblies(sRows))

\* C29: a composite row whose own item does not resolve creates no structure,
\* revision or link and adds exactly one to the structure failure count, and
\* every other composite row is still processed.
C29_UnresolvedCompositeCountsOnce ==
    [][ UnresolvedCompositeFails /\ EveryCompositeHandled ]_vars

\* the first composite did not resolve and has no structure, one failure is
\* counted, and the second composite has been given its structure
C29_Witness ==
    /\ phase = "summarize" /\ sIdx = 2
    /\ ~InStore(Assemblies(sRows)[1])
    /\ BomOf(Assemblies(sRows)[1]) = 0
    /\ BomOf(Assemblies(sRows)[2]) # 0
    /\ sum.bomsFailed = 1
    /\ sum.bomsCreated = 1

\* ---------------------------------------------------------------------------
\* The two groups of map() (under Spec)
\* ---------------------------------------------------------------------------

\* the rows map() has been called for so far
MappedSoFar == SubSeq(input, 1, mapIdx)

\* C30: every classified row map() has handled is written to exactly one
\* group, '1_inventory' iff it is a leaf and '2_assembly' iff it is a
\* composite: the two groups are disjoint and together hold every such row.
C30_Phase1Partition ==
    phase \in {"map", "reduce"} =>
        /\ groups["1_inventory"] = SelectSeq(MappedSoFar, LAMBDA r : ~r.isAssembly)
        /\ groups["2_assembly"] = SelectSeq(MappedSoFar, LAMBDA r : r.isAssembly)
        /\ Len(groups["1_inventory"]) + Len(groups["2_assembly"]) = mapIdx
        /\ phase = "reduce" => mapIdx = Len(input)

\* all three rows of an input are mapped, two are in the group of the
\* composites and one is in the group of the leaves
C30_Witness ==
    /\ phase = "reduce"
    /\ Len(input) = 3
    /\ Len(groups["2_assembly"]) = 2
    /\ Len(groups["1_inventory"]) = 1

\* ---------------------------------------------------------------------------
\* The repair of an existing item (under Spec)
\* ---------------------------------------------------------------------------

\* the step of reduce() of worker w that finds the item of its row
RepairsExisting(w) ==
    /\ phase = "reduce" /\ wk[w].pc = "lookup"
    /\ wk'[w].skipped = wk[w].skipped + 1
RepairedRow(w) == groups[w][wk[w].idx]
RepairedItem(w) ==
    FindByExternalId(items, ExternalId(RepairedRow(w).prospectName, RepairedRow(w).itemid))

\* the planning settings of an item: replenishment method and planning category
Planning(item) == <<item.method, item.category>>

\* the repair writes the planning settings only when the stored method is not
\* the expected one or the stored category is not the row's
WritesPlanningOnlyWhenDifferent(w) ==
    Planning(items'[RepairedItem(w)]) # Planning(items[RepairedItem(w)])
    => \/ items[RepairedItem(w)].method # ExpectedMethod(RepairedRow(w))
       \/ items[RepairedItem(w)].category # RepairedRow(w).planningItemCategoryId

\* without planning setup the planning settings are not written
NoPlanningWriteWhenDisabled(w) ==
    ~setupMRP => Planning(items'[RepairedItem(w)]) = Planning(items[RepairedItem(w)])

\* C31 as stated: reduce() on an existing item creates no second item record;
\* with planning setup enabled it leaves the item's replenishment method equal
\* to the one expected for the row's kind (MPS for a composite, MRP for a
\* leaf) and writes the item only when the stored method or planning category
\* differs; with planning setup disabled it writes no planning setting.
C31_RepairLeavesExpectedMethod ==
    [][ \A w \in Stages : RepairsExisting(w) =>
          /\ Len(items') = Len(items)
          /\ setupMRP => items'[RepairedItem(w)].method = ExpectedMethod(RepairedRow(w))
          /\ WritesPlanningOnlyWhenDifferent(w)
          /\ NoPlanningWriteWhenDisabled(w) ]_vars

\* ---------------------------------------------------------------------------
\* The location sub-records of an existing item (under Spec)
\* ---------------------------------------------------------------------------

\* the locations an item has a sub-record for
LocationsOf(item) == { item.locs[i].location : i \in 1..Len(item.locs) }
ConfiguredLocations == { LocationIds[k] : k \in 1..Len(LocationIds) }

\* the sub-records a step adds to an item
AddedLocations(before, after) ==
    { after.locs[i].location : i \in (Len(before.locs) + 1)..Len(after.locs) }

\* ensureItemLocations ran on an existing item and no store operation failed:
\* every configured location has a sub-record, and sub-records were created
\* only for locations that had none
LocationRepairCompletes(w) ==
    (RepairsExisting(w) /\ lastFailed' = {})
    => /\ ConfiguredLocations \subseteq LocationsOf(items'[RepairedItem(w)])
       /\ AddedLocations(items[RepairedItem(w)], items'[RepairedItem(w)])
             \cap LocationsOf(items[RepairedItem(w)]) = {}

\* no (item, location) pair has more than one sub-record
OneSubRecordPerLocation ==
    \A i \in 1..Len(items) : \A a, b \in 1..Len(items[i].locs) :
        items[i].locs[a].location = items[i].locs[b].location => a = b

\* C32 as stated: after ensureItemLocations runs on an existing item without
\* store failures every configured location has a sub-record for the item and
\* a sub-record is created only for locations that had none; across any
\* sequence of runs and any interleaving of the two workers of reduce() no
\* (item, location) pair ever has more than one sub-record.
C32_LocationRepair ==
    /\ [][ \A w \in Stages : LocationRepairCompletes(w) ]_vars
    /\ []OneSubRecordPerLocation

\* ---------------------------------------------------------------------------
\* The outcome of reduce() and the order of its two workers (under Spec)
\* ---------------------------------------------------------------------------

\* what reduce() leaves of one row when nothing fails: the item is repaired
\* when its external id is in the store, and created otherwise
RowOutcome(stored, rowData) ==
    LET id == FindByExternalId(stored, ExternalId(rowData.prospectName, rowData.itemid))
    IN  IF id # 0
        THEN [stored EXCEPT ![id] = ensureMRPSettings(@, rowData, {})]
        ELSE Append(stored, NewItem(rowData))

RECURSIVE GroupOutcome(_, _, _)
\* the rows of a group from position i on, handled one after the other
GroupOutcome(stored, group, i) ==
    IF i > Len(group) THEN stored
    ELSE GroupOutcome(RowOutcome(stored, group[i]), group, i + 1)

\* the schedule in which the worker of the leaves has returned before the
\* worker of the composites starts
LeavesThenComposites(stored) ==
    GroupOutcome(GroupOutcome(stored, groups["1_inventory"], 1),
                 groups["2_assembly"], 1)

\* the item identities with each item's kind and planning settings
KindsAndPlanning(stored) ==
    { [ externalid |-> stored[i].externalid, type |-> stored[i].type,
        method |-> stored[i].method, category |-> stored[i].category ] :
        i \in 1..Len(stored) }

\* both workers of the first run have returned and no store operation failed
\* by injection
FirstReduceDone ==
    /\ phase = "reduce" /\ ReduceComplete
    /\ ~prev.valid /\ faults = 0

\* C33 as stated: the item identities, kinds and planning settings at the end
\* of reduce() are the same for every interleaving of the two workers, hence
\* those of the schedule that runs the leaves first and the composites after,
\* also when an item id is on a leaf row and on a composite row.
C33_SameOutcomeForEverySchedule ==
    FirstReduceDone =>
        KindsAndPlanning(items) = KindsAndPlanning(LeavesThenComposites(<<>>))

\* ---------------------------------------------------------------------------
\* Item external ids of two runs (under SpecNamespace)
\* ---------------------------------------------------------------------------

\* prospect names and itemids, some of them holding the separator "_"
Namespaces == {"A", "A_B", "B", "P"}
NamespaceItemIds == {"B_C", "C", "A", "A_B"}

NamespaceInit ==
    /\ ident \in [ first  : [prospectName : Namespaces, itemid : NamespaceItemIds],
                   second : [prospectName : Namespaces, itemid : NamespaceItemIds],
                   out    : {<<>>} ]
    /\ runs = <<>> /\ parse = <<>>
    /\ config = OkConfig
    /\ rows = <<>> /\ setupMRP = FALSE
    /\ items = <<>> /\ boms = <<>> /\ revs = <<>> /\ catExists = FALSE
    /\ cache = <<>>
    /\ phase = "off" /\ input = <<>> /\ mapIdx = 0
    /\ groups = <<>> /\ wk = <<>> /\ sRows = <<>> /\ sIdx = 0 /\ sum = <<>>
    /\ faults = 0 /\ dirty = FALSE /\ wrote = FALSE /\ prev = <<>>
    /\ lastBom = <<>> /\ lastLink = <<>> /\ lastFailed = {}
    /\ cRows = <<>> /\ cOut = <<>> /\ cDone = TRUE

\* reduce() and createItem of two runs compute the external id of an item
computeItemExternalIds ==
    /\ ident.out = <<>>
    /\ ident' = [ident EXCEPT !.out =
                    << ExternalId(ident.first.prospectName, ident.first.itemid),
                       ExternalId(ident.second.prospectName, ident.second.itemid) >>]
    /\ UNCHANGED <<cvars, pvars, runs, parse>>

SpecNamespace == NamespaceInit /\ [][computeItemExternalIds]_vars

\* C34 as stated: two runs with different namespaces never compute the same
\* item external id, whatever their itemids; for example namespace "A" with
\* itemid "B_C" and namespace "A_B" with itemid "C".
C34_NamespacesNeverShareAnId ==
    (ident.out # <<>> /\ ident.first.prospectName # ident.second.prospectName)
        => ident.out[1] # ident.out[2]

\* ---------------------------------------------------------------------------
\* The counters of a worker of reduce() (under Spec)
\* ---------------------------------------------------------------------------

\* the rows worker w has counted, and the rows it has finished
Counted(state) == state.created + state.skipped + state.failed
Finished(w) == IF wk[w].pc = "done" THEN Len(groups[w]) ELSE wk[w].idx - 1

\* every finished row of the group is counted, and a worker that has returned
\* has counted as many rows as the group holds
CountsFinishedRows ==
    phase = "reduce" => \A w \in Stages : Counted(wk[w]) = Finished(w)

\* a step of a worker that finishes a row adds one to exactly one of created,
\* skipped and failed; any other step of reduce() leaves the three unchanged
CountsOnePerRow(w) ==
    (phase = "reduce" /\ phase' = "reduce") =>
        LET moved == { c \in {"created", "skipped", "failed"} : wk'[w][c] # wk[w][c] }
        IN  /\ \A c \in moved : wk'[w][c] = wk[w][c] + 1
            /\ Cardinality(moved) =
                  IF wk[w].pc # "done" /\ (wk'[w].idx # wk[w].idx \/ wk'[w].pc = "done")
                  THEN 1 ELSE 0

\* C35: for every group and every pattern of store failures, when the worker
\* of reduce() finishes, created + skipped + failed equals the number of rows
\* of the group, and each row is counted in exactly one of the three.
C35_WorkerCountsEveryRowOnce ==
    /\ []CountsFinishedRows
    /\ [][ \A w \in Stages : CountsOnePerRow(w) ]_vars

\* the worker of the composites has returned from a group of two rows, one of
\* them created and one failed
C35_Witness ==
    /\ phase = "reduce"
    /\ wk["2_assembly"].pc = "done"
    /\ Len(groups["2_assembly"]) = 2
    /\ wk["2_assembly"].created = 1
    /\ wk["2_assembly"].failed = 1

\* ---------------------------------------------------------------------------
\* The v2 pipeline (src/unnamed/part_000): item ids and rows pass from
\* getInputData and reduce to summarize through the cache (under SpecV2)
\* ---------------------------------------------------------------------------

\* the CSV files tried: a composite with a composite child, a composite with
\* two children, a composite with one child
V2Inputs == { TwoLevelInput, SiblingsInput, InfiniteQuantityInput }

\* the cache BOM_IMPORT_CACHE as a function from the keys it holds
V2Put(entries, key, value) ==
    [ k \in DOMAIN entries \cup {key} |-> IF k = key THEN value ELSE entries[k] ]
V2Has(entries, key) == key \in DOMAIN entries

V2Init ==
    /\ rows \in V2Inputs
    /\ config = OkConfig
    /\ setupMRP = FALSE
    /\ items = <<>> /\ boms = <<>> /\ revs = <<>>
    /\ catExists = FALSE
    /\ cache = << >>
    /\ phase = "v2 idle" /\ input = <<>> /\ mapIdx = 0
    /\ groups = <<>> /\ wk = <<>>
    /\ sRows = <<>> /\ sIdx = 0
    /\ sum = [ bomsCreated |-> 0, bomsFailed |-> 0, revisionsCreated |-> 0,
               revisionsFailed |-> 0, logged |-> FALSE ]
    /\ faults = 0 /\ dirty = FALSE /\ wrote = FALSE /\ prev = <<>>
    /\ lastBom = <<>> /\ lastLink = <<>> /\ lastFailed = {}
    /\ cRows = <<>> /\ cOut = <<>> /\ cDone = TRUE
    /\ runs = <<>> /\ ident = <<>> /\ parse = <<>>

\* getInputData of v2: map and classify the rows, put IMPORT_CONFIG and
\* ALL_ROWS into the cache, return the rows
v2getInputData ==
    /\ phase = "v2 idle"
    /\ \E mappedRows \in {ReClassify(MappedRows(rows))} :
        /\ cache' = V2Put(V2Put(cache, "IMPORT_CONFIG", ProspectName),
                          "ALL_ROWS", JsonRoundTrip(mappedRows))
        /\ input' = mappedRows
    /\ phase' = "v2 reduce"
    /\ UNCHANGED <<cvars, rvars, input_vars, items, boms, revs, catExists, mapIdx,
                   groups, wk, sRows, sIdx, sum, obs_vars>>

\* reduce of v2 for one row: the item is found or created, and its internal id
\* is put into the cache under prospectName + '_' + itemid
v2reduce ==
    /\ phase = "v2 reduce"
    /\ mapIdx < Len(input)
    /\ LET rowData == input[mapIdx + 1]
           externalId == ExternalId(ProspectName, rowData.itemid)
           existingItem == FindByExternalId(items, externalId)
       IN  IF existingItem # 0
           THEN /\ cache' = V2Put(cache, externalId, existingItem)
                /\ UNCHANGED items
           ELSE /\ items' = Append(items, [externalid |-> externalId])
                /\ cache' = V2Put(cache, externalId, Len(items) + 1)
    /\ mapIdx' = mapIdx + 1
    /\ UNCHANGED <<cvars, rvars, input_vars, boms, revs, catExists, phase, input,
                   groups, wk, sRows, sIdx, sum, obs_vars>>

\* an entry of the cache expires or is evicted before summarize reads it
v2cacheEntryExpires ==
    /\ phase = "v2 reduce"
    /\ mapIdx = Len(input)
    /\ \E key \in DOMAIN cache :
        cache' = [ k \in DOMAIN cache \ {key} |-> cache[k] ]
    /\ UNCHANGED <<cvars, rvars, input_vars, items, boms, revs, catExists, phase,
                   input, mapIdx, groups, wk, sRows, sIdx, sum, obs_vars>>

\* the body of assemblies.forEach of v2 for one assembly row: the store and
\* the counters afterwards
V2SummarizeOne(st, assembly, allRows, prospectName) ==
    LET cacheKey == ExternalId(prospectName, assembly.itemid)
        directChildren == DirectChildren(allRows, assembly.hierarchy)
        cached == SelectSeq(directChildren, LAMBDA child :
                      V2Has(cache, ExternalId(prospectName, child.itemid)))
        components == [ j \in 1..Len(cached) |->
                          [ item        |-> cache[ExternalId(prospectName, cached[j].itemid)],
                            bomquantity |-> QuantityOr1(cached[j]) ] ]
        bomExt == ExternalId(prospectName, BomName(assembly.itemid))
        existingBom == FindByExternalId(st.boms, bomExt)
        bomId == IF existingBom # 0 THEN existingBom ELSE Len(st.boms) + 1
        boms1 == IF existingBom # 0 THEN st.boms
                 ELSE Append(st.boms, [externalid |-> bomExt])
        revExt == ExternalId(prospectName, RevisionName(assembly.itemid))
        revs1 == IF FindByExternalId(st.revs, revExt) # 0 THEN st.revs
                 ELSE Append(st.revs, [ externalid |-> revExt,
                                        billofmaterials |-> bomId,
                                        component |-> components ])
    IN  IF ~V2Has(cache, cacheKey)
        THEN [st EXCEPT !.sum.bomsFailed = @ + 1]
        ELSE IF Len(directChildren) = 0 THEN st
        ELSE IF Len(components) = 0
        THEN [st EXCEPT !.sum.bomsFailed = @ + 1]
        ELSE [ boms |-> boms1, revs |-> revs1,
               sum |-> [st.sum EXCEPT !.bomsCreated = @ + 1,
                                      !.revisionsCreated = @ + 1] ]

RECURSIVE V2SummarizeFrom(_, _, _, _, _)
\* assemblies.forEach from position i on
V2SummarizeFrom(st, assemblies, i, allRows, prospectName) ==
    IF i > Len(assemblies) THEN st
    ELSE V2SummarizeFrom(V2SummarizeOne(st, assemblies[i], allRows, prospectName),
                         assemblies, i + 1, allRows, prospectName)

\* summarize of v2: JSON.parse of a missing IMPORT_CONFIG or ALL_ROWS entry
\* answers null without throwing, and the first use of the null value throws a
\* TypeError that the outer catch logs as 'summarize Error': no assembly is
\* handled and no summary is logged
v2summarize ==
    /\ phase = "v2 reduce"
    /\ mapIdx = Len(input)
    /\ IF ~V2Has(cache, "IMPORT_CONFIG") \/ ~V2Has(cache, "ALL_ROWS")
       THEN UNCHANGED <<boms, revs, sum>>
       ELSE \E allRows \in {cache["ALL_ROWS"]} :
            \E out \in { V2SummarizeFrom([boms |-> boms, revs |-> revs, sum |-> sum],
                                         Assemblies(allRows), 1, allRows,
                                         cache["IMPORT_CONFIG"]) } :
                /\ boms' = out.boms
                /\ revs' = out.revs
                /\ sum' = [out.sum EXCEPT !.logged = TRUE]
    /\ phase' = "v2 done"
    /\ UNCHANGED <<cvars, rvars, input_vars, items, catExists, cache, input, mapIdx,
                   groups, wk, sRows, sIdx, obs_vars>>

V2Next ==
    \/ v2getInputData
    \/ v2reduce
    \/ v2cacheEntryExpires
    \/ v2summarize

SpecV2 == V2Init /\ [][V2Next]_vars

\* a composite row of the CSV whose item is in the store and that has a
\* direct child row whose item is in the store
V2CompositesWithItems ==
    LET classified == ReClassify(MappedRows(rows))
    IN  { i \in 1..Len(classified) :
            /\ classified[i].isAssembly
            /\ FindByExternalId(items, ExternalId(ProspectName, classified[i].itemid)) # 0
            /\ \E j \in 1..Len(classified) :
                /\ ParentHierarchy(classified[j].hierarchy) = classified[i].hierarchy
                /\ FindByExternalId(items,
                       ExternalId(ProspectName, classified[j].itemid)) # 0 }

\* C36 as stated: in the v2 pipeline, when the ALL_ROWS entry or a per-item id
\* entry is missing from the cache at summarize, summarize falls back to
\* recomputation and still creates the structure and the revision of every
\* composite whose item is in the store.
C36_V2FallsBackOnCacheMiss ==
    (phase = "v2 done" /\ V2Has(cache, "IMPORT_CONFIG")) =>
        \A i \in V2CompositesWithItems :
            LET itemid == ReClassify(MappedRows(rows))[i].itemid
            IN  /\ FindByExternalId(boms, ExternalId(ProspectName, BomName(itemid))) # 0
                /\ FindByExternalId(revs,
                       ExternalId(ProspectName, RevisionName(itemid))) # 0

\* ---------------------------------------------------------------------------
\* Rows with an unterminated quote (under SpecParse)
\* ---------------------------------------------------------------------------

\* the positions of the quotes of a line that open or close a span
Delimiters(line) ==
    { p \in 1..Len(line) : RolesFrom(line, 1, FALSE)[p] = "delimiter" }

\* the last span of the line is opened and never closed
Unterminated(line) == Cardinality(Delimiters(line)) % 2 = 1

\* the position of the quote that opens the span which is never closed
OpeningQuote(line) ==
    CHOOSE p \in Delimiters(line) : \A q \in Delimiters(line) : q <= p

\* the characters of a span's text as a field holds them: a doubled quote as
\* one quote, no carriage return
RECURSIVE SpanText(_)
SpanText(text) ==
    IF text = <<>> THEN <<>>
    ELSE IF text[1] = "\r" THEN SpanText(Tail(text))
    ELSE IF text[1] = "\"" THEN <<"\"">> \o SpanText(Tail(Tail(text)))
    ELSE <<text[1]>> \o SpanText(Tail(text))

\* C37: for a row with an unterminated double quote parseRow returns its
\* fields all the same; the fields up to the opening quote are those of the
\* text before it, and everything from the opening quote to the end of the
\* row, commas and tabs included, goes to the last field and cuts no new one.
C37_UnterminatedQuoteConsumesRow ==
    (parse.done /\ Unterminated(parse.line)) =>
        LET q      == OpeningQuote(parse.line)
            before == parseRow(SubSeq(parse.line, 1, q - 1))
            rest   == SubSeq(parse.line, q + 1, Len(parse.line))
            n      == Len(parse.cells)
        IN  /\ n >= 1
            /\ n = Len(before)
            /\ \A c \in 1..(n - 1) : parse.cells[c] = before[c]
            /\ parse.cells[n] = before[n] \o SpanText(rest)
            /\ \A p \in 1..Len(rest) :
                  rest[p] \in {",", "\t"} =>
                      \E k \in 1..Len(parse.cells[n]) : parse.cells[n][k] = rest[p]

\* the row a,", has been tokenized: the comma after the quote is in the last
\* of its two fields
C37_Witness ==
    /\ parse.done
    /\ parse.line = <<"a", ",", "\"", ",">>
    /\ Unterminated(parse.line)
    /\ parse.cells = << <<"a">>, <<",">> >>

\* ---------------------------------------------------------------------------
\* The upload form's tokenizer and the pipeline's (under SpecParse)
\* ---------------------------------------------------------------------------

\* row.cells[parseInt(colIndex)] || '' and its trim(), for a column index of
\* the mapping (counted from 0)
CellAt(cells, colIndex) ==
    IF colIndex + 1 \in 1..Len(cells) THEN Trim(cells[colIndex + 1]) ELSE <<>>

\* C38: for every line, the upload form's parseRow and the pipeline's
\* parseRow return the same number of fields, each field of the form is the
\* pipeline's field trimmed, both keep or drop the line alike, and so the
\* value Phase 1 reads at a column index is the one the form showed there.
C38_TokenizersAgreeOnColumns ==
    (parse.done /\ parse.shown) =>
        /\ Len(parse.preview) = Len(parse.cells)
        /\ \A c \in 1..Len(parse.cells) : parse.preview[c] = Trim(parse.cells[c])
        /\ parse.listed = parse.row
        /\ \A colIndex \in 0..MaxLineLen :
              CellAt(parse.cells, colIndex) = CellAt(parse.preview, colIndex)

\* the line " a,a" went through both: the pipeline keeps the blank of the
\* first field, the form does not, and both have two fields
C38_Witness ==
    /\ parse.done /\ parse.shown
    /\ parse.line = <<" ", "a", ",", "a">>
    /\ parse.cells = << <<" ", "a">>, <<"a">> >>
    /\ parse.preview = << <<"a">>, <<"a">> >>

====
